---- MODULE Spec2Model ----
(***************************************************************************)
(* The scan-task pipeline of devops-tools-hub: app/tasks.py (task store,   *)
(* FIFO queue, worker threads) on top of app/utils/git_sonar.py            *)
(* (credential guard, clone, scanner run, exit-code classification,        *)
(* temporary-directory cleanup), with the status query of                  *)
(* app/routes/repo_scan_routes.py as the reader of the store.              *)
(*                                                                         *)
(* Optional values (Python None / a value) are sequences of length 0 / 1.  *)
(* Texts that the code only concatenates are TLA+ strings joined with \o;  *)
(* texts that the code searches are sequences: a repo_url is a sequence of *)
(* characters, a log is a sequence of text segments.                       *)
(***************************************************************************)
EXTENDS Integers, Sequences, FiniteSets, TLC

(***************************************************************************)
(* Bounds of the model.  MAX_TASK_HISTORY is 100 and WORKER_CONCURRENCY    *)
(* defaults to 1 in the source; the model runs them scaled so that         *)
(* eviction and parallel workers happen within MaxTasks submissions.       *)
(***************************************************************************)
MaxTasks == 3
MAX_TASK_HISTORY == 1
_num_workers == 1

Workers == 1.._num_workers

None == <<>>
Some(x) == <<x>>

(***************************************************************************)
(* Texts.                                                                  *)
(***************************************************************************)
HTTPS == <<"h","t","t","p","s",":","/","/">>
GH == <<"g","i","t","h","u","b",".","c","o","m","/">>
USERINFO == <<"u",":","p","@">>
GHP == <<"g","h","p","_">>
Alnum19 == <<"0","1","2","3","4","5","6","7","8","9","a","b","c","d","e","f","g","h","i">>
TAIL == <<"/","w">>

Lower == {"a","b","c","d","e","f","g","h","i","j","k","l","m","n","o","p","q","r","s","t","u","v","w","x","y","z"}
Upper == {"A","B","C","D","E","F","G","H","I","J","K","L","M","N","O","P","Q","R","S","T","U","V","W","X","Y","Z"}
Digit == {"0","1","2","3","4","5","6","7","8","9"}
AlnumClass == Lower \cup Upper \cup Digit
AlnumUnderscoreClass == AlnumClass \cup {"_"}

\* https://github.com/acme/w
CleanUrl == HTTPS \o GH \o <<"a","c","m","e">> \o TAIL
\* https://u:p@github.com/acme/w
BasicAuthUrl == HTTPS \o USERINFO \o GH \o <<"a","c","m","e">> \o TAIL
\* https://github.com/ghp_0123456789abcdefghij/w  (token body of 20)
TokenUrl == HTTPS \o GH \o GHP \o Alnum19 \o <<"j">> \o TAIL
\* https://github.com/ghp_0123456789abcdefghi/w   (token body of 19)
ShortTokenUrl == HTTPS \o GH \o GHP \o Alnum19 \o TAIL

\* https://github.com/github_pat_0123456789abcdefghi_/w  (token body of 20, "_" included)
PatUrl == HTTPS \o GH \o <<"g","i","t","h","u","b","_","p","a","t","_">> \o Alnum19 \o <<"_">> \o TAIL

(***************************************************************************)
(* The requests a submitter may send: (repo_url, branch_name, project_key)  *)
(* and the form's sonar_exclusions and sonar_inclusions, stripped.         *)
(***************************************************************************)
Requests ==
    { [repo_url |-> CleanUrl,      branch_name |-> "main", project_key |-> "acme_widgets",
       exclusions |-> "", inclusions |-> ""],
      [repo_url |-> TokenUrl,      branch_name |-> "dev",  project_key |-> "proj.b",
       exclusions |-> "", inclusions |-> ""] }

\* the requests of the credential-guard check: every URL above
GuardRequests ==
    Requests \cup
    { [repo_url |-> BasicAuthUrl,  branch_name |-> "main", project_key |-> "acme_widgets",
       exclusions |-> "", inclusions |-> ""],
      [repo_url |-> ShortTokenUrl, branch_name |-> "dev",  project_key |-> "proj.b",
       exclusions |-> "**/test/**", inclusions |-> "src/**"],
      [repo_url |-> PatUrl,        branch_name |-> "main", project_key |-> "proj.b",
       exclusions |-> "", inclusions |-> ""] }

(***************************************************************************)
(* re.search(prefix + class{min,}, s): some position of s starts with      *)
(* prefix followed by at least min characters of class.                    *)
(***************************************************************************)
StartsAt(s, i, prefix) ==
    /\ i + Len(prefix) - 1 <= Len(s)
    /\ \A k \in 1..Len(prefix) : s[i + k - 1] = prefix[k]

re_search(prefix, class, min, s) ==
    \E i \in 1..Len(s) :
        /\ StartsAt(s, i, prefix)
        /\ i + Len(prefix) + min - 1 <= Len(s)
        /\ \A k \in 0..(min - 1) : s[i + Len(prefix) + k] \in class

\* _TOKEN_PATTERNS: r"<prefix>[class]{20,}"
TokenPatternMin == 20
_TOKEN_PATTERNS ==
    << [prefix |-> GHP,                                          class |-> AlnumClass],
       [prefix |-> <<"g","i","t","h","u","b","_","p","a","t","_">>, class |-> AlnumUnderscoreClass],
       [prefix |-> <<"g","h","o","_">>,                          class |-> AlnumClass],
       [prefix |-> <<"g","h","u","_">>,                          class |-> AlnumClass],
       [prefix |-> <<"g","h","s","_">>,                          class |-> AlnumClass],
       [prefix |-> <<"g","h","r","_">>,                          class |-> AlnumClass] >>

Contains(s, c) == \E i \in 1..Len(s) : s[i] = c

\* a guard that forgets the token patterns
looks_like_credentialed_url_at_only(repo_url) == Contains(repo_url, "@")

_looks_like_credentialed_url(repo_url) ==
    \/ Contains(repo_url, "@")
    \/ \E p \in 1..Len(_TOKEN_PATTERNS) :
          re_search(_TOKEN_PATTERNS[p].prefix, _TOKEN_PATTERNS[p].class,
                    TokenPatternMin, repo_url)

(***************************************************************************)
(* app/utils/validators.py.  GITHUB_URL_PATTERN                            *)
(*   ^(https?://)?(www\.)?github\.com/[A-Za-z0-9_.-]+/[A-Za-z0-9_.-]+(\.git)?/?$ *)
(* on a sequence of characters: an optional scheme, an optional "www.",    *)
(* "github.com/", then owner "/" repo with an optional "/" at the end (the *)
(* optional ".git" is made of characters of the repo class).               *)
(***************************************************************************)
UrlSegmentClass == AlnumClass \cup {"_", ".", "-"}
Schemes == { <<>>, HTTPS, <<"h","t","t","p",":","/","/">> }
Wwws == { <<>>, <<"w","w","w",".">> }

OwnerSlashRepo(r) ==
    LET body == IF Len(r) > 0 /\ r[Len(r)] = "/" THEN SubSeq(r, 1, Len(r) - 1) ELSE r
    IN  \E k \in 2..(Len(body) - 1) :
            /\ body[k] = "/"
            /\ \A i \in (1..Len(body)) \ {k} : body[i] \in UrlSegmentClass

GITHUB_URL_PATTERN_match(s) ==
    \E scheme \in Schemes, www \in Wwws :
        LET head == scheme \o www \o GH IN
        /\ StartsAt(s, 1, head)
        /\ OwnerSlashRepo(SubSeq(s, Len(head) + 1, Len(s)))

\* BRANCH_PATTERN and PROJECT_KEY_PATTERN on the names the requests use:
\* all are made of [A-Za-z0-9._-] and none is empty
BRANCH_PATTERN_match(branch_name) == branch_name \in {"main", "dev"}
PROJECT_KEY_PATTERN_match(project_key) == project_key \in {"acme_widgets", "proj.b"}

\* validate_request: (True, None) or (False, message); here the verdict
validate_request(repo_url, branch_name, project_key) ==
    /\ GITHUB_URL_PATTERN_match(repo_url)
    /\ BRANCH_PATTERN_match(branch_name)
    /\ PROJECT_KEY_PATTERN_match(project_key)

(***************************************************************************)
(* Configuration (app/config.py, read from the environment at import).     *)
(***************************************************************************)
\* str.strip() on the configuration texts below
strip(s) == IF s = " " THEN "" ELSE s

ScannerDefaults ==
    [SONAR_EXCLUSIONS |-> "", SONAR_CPD_MINIMUM_TOKENS |-> "", SONAR_DEBUG |-> FALSE,
     SCANNER_HEAP_MIN |-> "-Xms512m", SCANNER_HEAP_LIMIT |-> "-Xmx1900m",
     SONARQUBE_WEB_URL |-> "https://sonar.example", SONAR_USERNAME |-> "bot",
     SONAR_PASSWORD |-> "secret", SCREENSHOT_TTL_HOURS |-> <<"2", "4">>]

Configs ==
    { [SONAR_HOST_URL |-> "https://sonar.example", SONAR_LOGIN_TOKEN |-> "squ_token"] @@ ScannerDefaults,
      [SONAR_HOST_URL |-> "",                      SONAR_LOGIN_TOKEN |-> "squ_token"] @@ ScannerDefaults,
      [SONAR_HOST_URL |-> "https://sonar.example", SONAR_LOGIN_TOKEN |-> " "] @@ ScannerDefaults }

\* the configurations of one job on its own: also every optional setting set
ScannerConfigs ==
    Configs \cup
    { [SONAR_HOST_URL |-> "https://sonar.example", SONAR_LOGIN_TOKEN |-> "squ_token",
       SONAR_EXCLUSIONS |-> "**/vendor/**", SONAR_CPD_MINIMUM_TOKENS |-> "50",
       SONAR_DEBUG |-> TRUE,
       SCANNER_HEAP_MIN |-> "-Xms512m", SCANNER_HEAP_LIMIT |-> "-Xmx1900m",
       SONARQUBE_WEB_URL |-> "https://sonar.example", SONAR_USERNAME |-> "bot",
       SONAR_PASSWORD |-> "secret", SCREENSHOT_TTL_HOURS |-> <<"2", "4">>] }

\* the configurations of the screenshot step: complete, or no password set
ScreenshotConfigs ==
    { c \in Configs : strip(c.SONAR_HOST_URL) # "" /\ strip(c.SONAR_LOGIN_TOKEN) # "" } \cup
    { [c EXCEPT !.SONAR_PASSWORD = ""] :
        c \in { c \in Configs : strip(c.SONAR_HOST_URL) # "" /\ strip(c.SONAR_LOGIN_TOKEN) # "" } }


VARIABLES
    task_statuses,    \* the ordered dict: a sequence of task records, oldest first
    task_queue,       \* queue.Queue of jobs, head first
    _worker_started,  \* the module flag guarded by _worker_lock
    threads,          \* worker thread -> its position in _worker_loop and its locals
    uuid_count,       \* how many task ids uuid4 has issued
    config,           \* the Config of this process
    world,            \* what git, the scanner and the screenshot step can do in
                      \* this run: the outcomes each call is drawn from
    tmp_dirs,         \* the temporary directories that exist; mkdtemp names a
                      \* fresh one per call, here after the task it is made for
    attempts,         \* history: per task id, how often its job was taken off
                      \* the queue and how often clone_and_scan was called for it
    started,          \* history: how many worker threads Thread.start() has started
    _worker_lock,     \* the request thread that holds the lock, or 0
    requests,         \* request thread -> its position in create_task and its locals
    response,         \* what the status route answered last
    screenshot_dir,   \* the entries of SCREENSHOT_DIR, each with its age in
                      \* seconds (now - st_mtime) at the next purge
    scan_queue,       \* the SonarScanQueue object: _q, the queue's count of
                      \* unfinished tasks, _threads, _stopping
    scan_workers,     \* thread of SonarScanQueue -> its position in _worker
    futures,          \* the Futures enqueue has returned, in order
    _failed_attempts, \* login throttle: the entry of the client IP, if any
    logins,           \* login request thread -> its position in the handler
    utcnow            \* the clock of the login throttle, in minutes

\* the state of the request threads
front == <<_worker_lock, requests, response, screenshot_dir>>

\* the state of the scan queue object and of the login throttle
back == <<scan_queue, scan_workers, futures, _failed_attempts, logins, utcnow>>

vars == <<task_statuses, task_queue, _worker_started, threads, uuid_count,
          config, world, tmp_dirs, attempts, started, front, back>>

(***************************************************************************)
(* The six status labels (app/tasks.py).                                   *)
(***************************************************************************)
StatusQueued == "Queued"
StatusRunning == "Running"
StatusGenerating == "Generating Screenshot"
StatusCompleted == "Completed"
StatusQualityGate == "Failed: Quality Gate"
\* a fatal handler that leaves the status as it was
StatusFatalStale == "Running"
StatusFatal == "Failed: An error occurred"
\* a screenshot handler that reports the scan's own result
StatusScreenshotErrorAsCompleted == "Completed"
StatusScreenshotError == "Failed: Screenshot Error"
\* a record created as already running
InitialStatusRunning == "Running"
InitialStatus == StatusQueued

QualityGateMsg == "Quality Gate Failed. Please check the SonarQube dashboard."

(***************************************************************************)
(* The task store: a Python dict keeps insertion order, assignment to a    *)
(* field of an existing record keeps its place, del removes one key.       *)
(***************************************************************************)
Index(ts, id) ==
    IF \E i \in 1..Len(ts) : ts[i].task_id = id
    THEN CHOOSE i \in 1..Len(ts) : ts[i].task_id = id
    ELSE 0

Has(ts, id) == Index(ts, id) # 0
Get(ts, id) == ts[Index(ts, id)]
\* an assignment that also resets the record's branch
SetField_resetting_branch(ts, id, f, v) ==
    [ts EXCEPT ![Index(ts, id)] = [@ EXCEPT ![f] = v, !.branch_name = ""]]
SetField(ts, id, f, v) == [ts EXCEPT ![Index(ts, id)] = [@ EXCEPT ![f] = v]]
Keys(ts) == [i \in 1..Len(ts) |-> ts[i].task_id]

\* a cleanup that drops the newest keys instead of the oldest
cleanup_newest_first(ts) ==
    IF Len(ts) > MAX_TASK_HISTORY
    THEN SubSeq(ts, 1, MAX_TASK_HISTORY)
    ELSE ts

\* a cleanup that spares the records of unfinished tasks
cleanup_finished_only(ts) ==
    IF Len(ts) > MAX_TASK_HISTORY
    THEN LET excess == Len(ts) - MAX_TASK_HISTORY
             keys_to_remove == {Keys(ts)[i] : i \in 1..excess}
         IN  SelectSeq(ts, LAMBDA t : \/ t.task_id \notin keys_to_remove
                                      \/ t.status \in {"Queued", "Running", "Generating Screenshot"})
    ELSE ts

\* _cleanup_old_tasks: del the first excess keys of the dict
_cleanup_old_tasks(ts) ==
    IF Len(ts) > MAX_TASK_HISTORY
    THEN LET excess == Len(ts) - MAX_TASK_HISTORY
             keys_to_remove == {Keys(ts)[i] : i \in 1..excess}
         IN  SelectSeq(ts, LAMBDA t : t.task_id \notin keys_to_remove)
    ELSE ts

(***************************************************************************)
(* Worker threads.                                                         *)
(***************************************************************************)
NoJob == [task_id |-> 0, repo_url |-> <<>>, branch_name |-> "", project_key |-> "",
          exclusions |-> "", inclusions |-> ""]
NoExc == [type |-> "", msg |-> <<>>]
NoExit == -1

(***************************************************************************)
(* One call of take_sonar_screenshot(project_key, selector, clip_rect)     *)
(* (app/utils/screenshot_service.py): its arguments and locals.  A         *)
(* clip_rect is the set of the keys it has (None and {} have none).        *)
(***************************************************************************)
\* what a read of the badge text gives: None when it fails
BadgeReads == {None, Some("Passed"), Some("Failed")}
candidate_selectors ==
    <<"[data-test='quality-gate-status']",
      "div[data-test='overview__quality-gate-panel'] span",
      "div[data-test='overview__quality-gate-panel'] [class*='QualityGate']">>

\* _wait_for_quality_gate_update(page, badge_selector, max_wait_ms, interval_ms):
\* the two waits, scaled
max_wait_ms == 6
interval_ms == 2
\* the hard fixed delay
fixed_delay_ms == 30000

NoSession ==
    [selector |-> None, clip_rect |-> {}, steps |-> <<>>, browser |-> "none",
     failed_in |-> "", badge_selector |-> None,
     prev_text |-> None, latest_text |-> None, clock |-> 0, reads |-> 0,
     delayed |-> 0, polled |-> "",
     quality_gate_updated |-> FALSE, quality_gate_status |-> None, waited_ms |-> 0,
     captured |-> <<>>, removed |-> {}]

FreshLocals ==
    [job |-> NoJob, sonar_url |-> None, final_status |-> StatusCompleted,
     error_msg |-> None, exc |-> NoExc, uncaught |-> FALSE, tmp_dir |-> None,
     made_dir |-> None, procs |-> {}, full_output |-> <<>>,
     exit_code |-> NoExit, shot |-> "none", screenshot_info |-> None,
     job_cache_dir |-> None, files |-> {}, cmd |-> <<>>, env |-> None,
     session |-> NoSession]

Thread(at) == [pc |-> at] @@ FreshLocals

\* _ensure_workers_started, under _worker_lock
_ensure_workers_started(th) ==
    IF _worker_started
    THEN th
    ELSE [w \in Workers |-> [th[w] EXCEPT !.pc = "line123"]]

\* what subprocess.run(git clone ..., check=True) does: the clone is made,
\* git exits non-zero (CalledProcessError), or git cannot be executed at all
\* (OSError: no git on PATH, or an argument longer than the kernel accepts)
GitOutcomes == {"cloned", "CalledProcessError", "OSError"}

\* the exit codes of the scanner process
ExitCodes == {0, 1, 2}

\* what take_sonar_screenshot does, see Line107
ScreenshotOutcomes == {"info", "null", "raise"}

\* the paths of a clone that the scanner command depends on
ClonePaths ==
    {"coverage.xml", "target/site/jacoco/jacoco.xml", "coverage/lcov.info",
     "coverage.out", "target/classes"}

(***************************************************************************)
(* The runs that are told apart.  In a run of SingleWorlds every call of   *)
(* one program ends the same way (as with test doubles): the clone fails,  *)
(* or the scanner exits with one code and the screenshot step ends one     *)
(* way.  In AnyWorld every call may end in any way.                        *)
(***************************************************************************)
AnyWorld ==
    [git |-> GitOutcomes, ret |-> ExitCodes, shot |-> ScreenshotOutcomes,
     files |-> SUBSET ClonePaths]

SingleWorlds ==
    { [git |-> {g}, ret |-> {r}, shot |-> {sh}, files |-> {{}}] :
        <<g, r, sh>> \in
            {o \in GitOutcomes \X ExitCodes \X ScreenshotOutcomes :
                /\ o[1] # "cloned" => (o[2] = 0 /\ o[3] = "info")
                /\ o[2] = 1 => o[3] = "info"} }

\* a scanner that is never reached, for want of configuration, runs in one world
Environments ==
    { e \in Configs \X SingleWorlds :
        (strip(e[1].SONAR_HOST_URL) = "" \/ strip(e[1].SONAR_LOGIN_TOKEN) = "")
            => (e[2].ret = {0} /\ e[2].shot = {"info"}) }

\* the request threads of the web server that may be inside create_task at
\* the same time
MaxCallers == 2
Callers == 1..MaxCallers

\* a request thread outside create_task
Idle == [pc |-> "idle", req |-> None, i |-> 0, keys_to_remove |-> <<>>, task_id |-> 0,
         raised |-> FALSE]
NoRequests == [c \in Callers |-> Idle]

NoAttempts == [id \in 1..MaxTasks |-> [dequeued |-> 0, scanned |-> 0]]

(***************************************************************************)
(* The SonarScanQueue object of app/utils/git_sonar.py and the login        *)
(* throttle of app/utils/auth.py, as they are after import and             *)
(* construction.                                                           *)
(***************************************************************************)
\* SonarScanQueue(num_workers)
num_workers == 1
\* the Futures enqueue() hands out, and the start() calls that make threads
MaxJobs == 2
MaxStarts == 2
ScanThreads == 1..(MaxStarts * num_workers)

\* a thread of the scan queue: where it is in _worker and the Future it holds
ScanWorker(at) == [pc |-> at, fut |-> 0]

\* __init__: an empty queue, no threads, the event clear.  starts counts
\* the start() calls that made threads; caller is where the thread that
\* called stop() is
SonarScanQueue ==
    [_num_workers |-> num_workers, _q |-> <<>>, unfinished_tasks |-> 0,
     _threads |-> <<>>, _stopping |-> FALSE, starts |-> 0, caller |-> "idle"]

\* the login throttle
MAX_ATTEMPTS == 5
BLOCK_DURATION == 1
MaxLogins == 2
MaxClock == 2
Logins == 1..MaxLogins

\* a request thread outside github_access_login
NoLogin == [pc |-> "idle", password |-> "", validated_blocked |-> FALSE]

InitBack ==
    /\ scan_queue = SonarScanQueue
    /\ scan_workers = [t \in ScanThreads |-> ScanWorker("unstarted")]
    /\ futures = <<>>
    /\ _failed_attempts = None
    /\ logins = [l \in Logins |-> NoLogin]
    /\ utcnow = 0

Init ==
    /\ task_statuses = <<>>
    /\ task_queue = <<>>
    /\ _worker_started = FALSE
    /\ threads = [w \in Workers |-> Thread("unstarted")]
    /\ uuid_count = 0
    /\ \E e \in Environments : config = e[1] /\ world = e[2]
    /\ tmp_dirs = {}
    /\ attempts = NoAttempts
    /\ started = IF _worker_started THEN _num_workers ELSE 0
    /\ _worker_lock = 0
    /\ requests = NoRequests
    /\ response = None
    /\ screenshot_dir = {}
    /\ InitBack

(***************************************************************************)
(* create_task(repo_url, branch_name, project_key), called by the POST     *)
(* /repo-scan handler.                                                     *)
(***************************************************************************)
NewRecord(id, req) ==
    [task_id |-> id, status |-> InitialStatus,
     repo_url |-> req.repo_url, branch_name |-> req.branch_name,
     project_key |-> req.project_key,
     sonar_url |-> None, screenshot_info |-> None, log |-> None]

NewJob(id, req) ==
    [task_id |-> id, repo_url |-> req.repo_url,
     branch_name |-> req.branch_name, project_key |-> req.project_key,
     exclusions |-> req.exclusions, inclusions |-> req.inclusions]

create_task(req) ==
    /\ uuid_count < MaxTasks
    /\ LET task_id == uuid_count + 1 IN
        /\ threads' = _ensure_workers_started(threads)
        /\ _worker_started' = TRUE
        /\ task_statuses' = Append(_cleanup_old_tasks(task_statuses), NewRecord(task_id, req))
        /\ task_queue' = Append(task_queue, NewJob(task_id, req))
        /\ uuid_count' = task_id
        /\ started' = IF _worker_started THEN started ELSE _num_workers
    /\ UNCHANGED <<config, world, front, back>>
    /\ UNCHANGED tmp_dirs
    /\ UNCHANGED attempts

(***************************************************************************)
(* GET /status/<task_id>: the handler reads the store and answers; it      *)
(* changes no state.  The status it reports, or the 404.                   *)
(***************************************************************************)
task_status_route(task_id) ==
    IF Has(task_statuses, task_id)
    THEN Get(task_statuses, task_id).status
    ELSE "Invalid task ID"

(***************************************************************************)
(* The log of the status response, byte by byte.  A text is a sequence of  *)
(* characters; a byte of its UTF-8 encoding is the k-th byte of a          *)
(* character.                                                              *)
(***************************************************************************)
\* one character for each length of a UTF-8 encoding
Chars == {"a", "U+00E9", "U+20AC", "U+1F600"}

utf8_width(ch) ==
    CASE ch = "a" -> 1 [] ch = "U+00E9" -> 2 [] ch = "U+20AC" -> 3 [] ch = "U+1F600" -> 4

\* str.encode("utf-8", errors="ignore") of a text without lone surrogates
RECURSIVE encode(_)
encode(text) ==
    IF text = <<>> THEN <<>>
    ELSE [k \in 1..utf8_width(Head(text)) |-> [of |-> Head(text), k |-> k]]
         \o encode(Tail(text))

\* bytes.decode("utf-8", errors="ignore"): a character for every complete
\* encoding, nothing for a byte that is not part of one
RECURSIVE decode(_)
decode(bytes) ==
    IF bytes = <<>> THEN <<>>
    ELSE LET ch == Head(bytes).of
             n == utf8_width(ch)
             complete == /\ Len(bytes) >= n
                         /\ \A j \in 1..n : bytes[j] = [of |-> ch, k |-> j]
         IN  IF complete
             THEN <<ch>> \o decode(SubSeq(bytes, n + 1, Len(bytes)))
             ELSE decode(Tail(bytes))

\* the byte budget of _truncate_log (max_bytes), scaled
max_bytes == 4

\* a cut that counts characters
_truncate_log_by_chars(log_text) ==
    IF log_text \in {None, Some(<<>>)}
    THEN <<None, 0>>
    ELSE LET chars == IF Len(log_text[1]) < max_bytes THEN Len(log_text[1]) ELSE max_bytes
         IN  <<Some(SubSeq(log_text[1], 1, chars)), Len(encode(log_text[1]))>>

\* _truncate_log(log_text): (log_snippet, total_size)
_truncate_log(log_text) ==
    IF log_text \in {None, Some(<<>>)}
    THEN <<None, 0>>
    ELSE LET encoded == encode(log_text[1])
             total == Len(encoded)
         IN  IF total <= max_bytes
             THEN <<log_text, total>>
             ELSE <<Some(decode(SubSeq(encoded, 1, max_bytes))), total>>

\* task_status_route: the JSON body.  _shape_screenshot_info gives null for
\* no info, and otherwise the info itself (its own display_url wins).
task_status_response(task_id, include_log) ==
    IF ~Has(task_statuses, task_id)
    THEN [error |-> "Invalid task ID"]
    ELSE LET task_info == Get(task_statuses, task_id)
             raw_log == task_info.log
             total_size == IF include_log THEN _truncate_log(raw_log)[2]
                           ELSE IF raw_log \in {None, Some(<<>>)} THEN 0
                           ELSE Len(encode(raw_log[1]))
         IN  [task_id |-> task_id,
              status |-> task_info.status,
              sonar_url |-> task_info.sonar_url,
              screenshot_info |-> task_info.screenshot_info,
              has_log |-> raw_log \notin {None, Some(<<>>)},
              log_size |-> total_size,
              log |-> IF include_log THEN _truncate_log(raw_log)[1] ELSE None]

\* GET /status/<task_id>, with or without include_log=1
status_request ==
    /\ \E task_id \in 1..(uuid_count + 1), include_log \in BOOLEAN :
          response' = Some([task_id |-> task_id, include_log |-> include_log,
                            json |-> task_status_response(task_id, include_log)])
    /\ UNCHANGED <<task_statuses, task_queue, _worker_started, threads, uuid_count,
                   config, world, tmp_dirs, attempts, started, _worker_lock, requests, screenshot_dir, back>>

(***************************************************************************)
(* app/utils/git_sonar.py: what one clone_and_scan call does.              *)
(***************************************************************************)
\* the combined stdout/stderr of the scanner, line by line
ScannerOutputs ==
    { <<"INFO: Scanner configuration file: NONE\n", "ERROR: Not authorized\n">> }

\* the lines of ScannerOutputs in which _scanner_failure_hint finds its texts
AuthLines == {"ERROR: Not authorized\n"}
ConnectLines == {}

Exc(type, msg) == [type |-> type, msg |-> msg]
KeyError(id) == Exc("KeyError", <<"'", ToString(id), "'">>)

_scanner_failure_hint(output) ==
    IF \E i \in 1..Len(output) : output[i] \in AuthLines
    THEN "Check SONAR_LOGIN_TOKEN and SONAR_HOST_URL."
    ELSE IF \E i \in 1..Len(output) : output[i] \in ConnectLines
         THEN "Check SONAR_HOST_URL reachability."
         ELSE ""

\* a failure message that names the exit code only
raise_scanner_failure_without_output(ret, output_lines) ==
    Exc("RuntimeError", <<"SonarScanner failed (exit ", ToString(ret), ")">>)

\* _raise_scanner_failure, for ret outside (0, 2): the RuntimeError raised
_raise_scanner_failure(ret, output_lines) ==
    LET hint == _scanner_failure_hint(output_lines)
        output == IF hint # ""
                  THEN output_lines \o <<"\nHint: ", hint, "\n">>
                  ELSE output_lines
    IN  Exc("RuntimeError",
            <<"SonarScanner failed (exit ", ToString(ret), ")\n\n">> \o output)

\* f"{config['host_url']}/dashboard?id={project_key}"
sonar_dashboard_url(host_url, project_key) ==
    host_url \o "/dashboard?id=" \o project_key

\* shutil.rmtree(tmp_dir, ignore_errors=True)
rmtree(dirs, d) == dirs \ {d}

(***************************************************************************)
(* The scanner's command line and environment.  An argv is a sequence of   *)
(* arguments, an argument the sequence of the texts its f-string joins.    *)
(***************************************************************************)
\* coverage_paths.items(), in the dict's order
coverage_paths ==
    << [lang |-> "python",     param |-> "-Dsonar.python.coverage.reportPaths=",
                               path |-> "coverage.xml"],
       [lang |-> "java",       param |-> "-Dsonar.coverage.jacoco.xmlReportPaths=",
                               path |-> "target/site/jacoco/jacoco.xml"],
       [lang |-> "javascript", param |-> "-Dsonar.javascript.lcov.reportPaths=",
                               path |-> "coverage/lcov.info"],
       [lang |-> "go",         param |-> "-Dsonar.go.coverage.reportPaths=",
                               path |-> "coverage.out"] >>

\* a helper that reports every coverage file it finds
_append_coverage_args_all(cmd, files) ==
    LET RECURSIVE reported(_, _)
        reported(c, i) ==
            IF i > Len(coverage_paths) THEN c
            ELSE reported(IF coverage_paths[i].path \in files
                          THEN Append(c, <<coverage_paths[i].param, coverage_paths[i].path>>)
                          ELSE c, i + 1)
    IN  reported(cmd, 1)

\* _append_coverage_args: the first report of coverage_paths that exists
_append_coverage_args(cmd, files) ==
    LET found == {i \in 1..Len(coverage_paths) : coverage_paths[i].path \in files} IN
    IF found = {}
    THEN cmd
    ELSE LET c == coverage_paths[CHOOSE i \in found : \A j \in found : i <= j]
             reported == Append(cmd, <<c.param, c.path>>)
         IN  IF c.lang = "java" /\ "target/classes" \in files
             THEN Append(reported, <<"-Dsonar.java.binaries=target/classes">>)
             ELSE reported

\* a helper that also hands the token over as an argument
append_cpd_min_tokens_and_login(cmd, cfg) ==
    Append(cmd, <<"-Dsonar.login=", strip(cfg.SONAR_LOGIN_TOKEN)>>)

_append_cpd_min_tokens(cmd, cfg) ==
    IF cfg.SONAR_CPD_MINIMUM_TOKENS # ""
    THEN Append(cmd, <<"-Dsonar.cpd.minimumTokens=", cfg.SONAR_CPD_MINIMUM_TOKENS>>)
    ELSE cmd

\* _build_sonar_command, for a host_url that is not empty
_build_sonar_command(cfg, project_key, exclusions, inclusions, files) ==
    LET host_url == strip(cfg.SONAR_HOST_URL)
        debug == IF cfg.SONAR_DEBUG THEN << <<"-X">>, <<"-Dsonar.verbose=true">> >> ELSE <<>>
        exclusions_pattern == IF exclusions # "" THEN exclusions ELSE cfg.SONAR_EXCLUSIONS
        cmd == << <<"sonar-scanner">> >> \o debug \o
               << <<"-Dsonar.projectKey=", project_key>>,
                  <<"-Dsonar.sources=.">>,
                  <<"-Dsonar.host.url=", host_url>> >> \o
               (IF exclusions_pattern # ""
                THEN << <<"-Dsonar.exclusions=", exclusions_pattern>> >> ELSE <<>>) \o
               (IF inclusions # ""
                THEN << <<"-Dsonar.inclusions=", inclusions>> >> ELSE <<>>)
    IN  _append_cpd_min_tokens(_append_coverage_args(cmd, files), cfg)

\* os.getenv("SONAR_USER_HOME", "/cache")
base_cache == "/cache"

\* project_key.replace("/", "_") on the project keys of this model
replace_slash(project_key) == IF project_key = "grp/app" THEN "grp_app" ELSE project_key

\* clone_and_scan, per_job_cache: os.path.join(base_cache, <project key>)
job_cache_dir(project_key) == <<base_cache, replace_slash(project_key)>>

\* _build_scanner_env, for a token that is not empty: what it sets in its
\* copy of os.environ
_build_scanner_env(cfg, custom_cache_dir) ==
    [SONAR_SCANNER_OPTS |-> <<cfg.SCANNER_HEAP_MIN, " ", cfg.SCANNER_HEAP_LIMIT>>,
     SONAR_USER_HOME |-> IF custom_cache_dir # None THEN custom_cache_dir[1] ELSE <<base_cache>>,
     SONAR_TOKEN |-> strip(cfg.SONAR_LOGIN_TOKEN)]


(***************************************************************************)
(* _worker_loop and _process_job, one step per access to shared state.     *)
(* A worker's pc is the line of app/tasks.py it is about to execute        *)
(* ("limited_sonar_scan": inside clone_and_scan, the clone made).          *)
(***************************************************************************)
At(w, at) == threads[w].pc = at
Goto(w, at) == [threads EXCEPT ![w].pc = at]

\* line 123: job = task_queue.get()
\* a worker that takes the job submitted last
Dequeue_newest_first(w) ==
    /\ At(w, "line123")
    /\ task_queue # <<>>
    /\ threads' = [threads EXCEPT ![w].pc = "line66",
                                  ![w].job = task_queue[Len(task_queue)]]
    /\ task_queue' = SubSeq(task_queue, 1, Len(task_queue) - 1)
    /\ attempts' = [attempts EXCEPT ![task_queue[Len(task_queue)].task_id].dequeued = @ + 1]
    /\ UNCHANGED <<task_statuses, _worker_started, uuid_count, config, world, started, front, back>>
    /\ UNCHANGED tmp_dirs

Dequeue(w) ==
    /\ At(w, "line123")
    /\ task_queue # <<>>
    /\ threads' = [threads EXCEPT ![w].pc = "line66", ![w].job = Head(task_queue)]
    /\ task_queue' = Tail(task_queue)
    /\ attempts' = [attempts EXCEPT ![Head(task_queue).task_id].dequeued = @ + 1]
    /\ UNCHANGED <<task_statuses, _worker_started, uuid_count, config, world, started, front, back>>
    /\ UNCHANGED tmp_dirs

\* task_statuses[task_id][f] = v at line `at`; a KeyError when the record is gone
Write(w, at, f, v, next, caught) ==
    /\ At(w, at)
    /\ LET id == threads[w].job.task_id IN
        IF Has(task_statuses, id)
        THEN /\ task_statuses' = SetField(task_statuses, id, f, v)
             /\ threads' = Goto(w, next)
        ELSE /\ UNCHANGED task_statuses
             /\ threads' = [threads EXCEPT
                               ![w].pc = IF caught THEN "line117" ELSE "line127",
                               ![w].exc = KeyError(id),
                               ![w].uncaught = ~caught]
    /\ UNCHANGED <<task_queue, _worker_started, uuid_count, config, world, started, front, back>>
    /\ UNCHANGED tmp_dirs
    /\ UNCHANGED attempts

\* a worker that starts on the job without marking it
Line66_without_write(w) ==
    /\ At(w, "line66")
    /\ threads' = Goto(w, "line75")
    /\ UNCHANGED <<task_statuses, task_queue, _worker_started, uuid_count, config, world, started, front, back>>
    /\ UNCHANGED tmp_dirs
    /\ UNCHANGED attempts

Line66(w) == Write(w, "line66", "status", StatusRunning, "line75", FALSE)

\* line 75 -> clone_and_scan -> limited_clone.  Its except clause names
\* CalledProcessError only; clone_and_scan's finally sees tmp_dir = None
\* whenever limited_clone raised.
limited_clone(w) ==
    /\ At(w, "line75")
    /\ LET repo_url == threads[w].job.repo_url IN
        IF _looks_like_credentialed_url(repo_url)
        THEN /\ threads' = [threads EXCEPT
                   ![w].pc = "line93",
                   ![w].job_cache_dir = Some(job_cache_dir(threads[w].job.project_key)),
                   ![w].exc = Exc("ValueError",
                       <<"repo_url contains credential/token. Use clean https URL and rely on .netrc.">>)]
             /\ UNCHANGED tmp_dirs
        ELSE \E git \in world.git, files \in world.files :
             LET tmp_dir == threads[w].job.task_id IN
             /\ tmp_dirs' = IF git = "CalledProcessError"
                            THEN rmtree(tmp_dirs \cup {tmp_dir}, tmp_dir)
                            ELSE tmp_dirs \cup {tmp_dir}
             /\ threads' = [threads EXCEPT
                    ![w].pc = IF git = "cloned" THEN "limited_sonar_scan" ELSE "line93",
                    ![w].tmp_dir = IF git = "cloned" THEN Some(tmp_dir) ELSE None,
                    ![w].made_dir = Some(tmp_dir),
                    ![w].job_cache_dir = Some(job_cache_dir(threads[w].job.project_key)),
                    ![w].files = IF git = "cloned" THEN files ELSE @,
                    ![w].procs = IF git = "OSError" THEN @ ELSE @ \cup {"git"},
                    ![w].exc =
                        IF git = "CalledProcessError"
                        THEN Exc("RuntimeError",
                                 <<"Git operation failed: ", "fatal: repository not found">>)
                        ELSE IF git = "OSError"
                        THEN Exc("OSError", <<"[Errno 7] Argument list too long: 'git'">>)
                        ELSE @]
    /\ attempts' = [attempts EXCEPT ![threads[w].job.task_id].scanned = @ + 1]
    /\ UNCHANGED <<task_statuses, task_queue, _worker_started, uuid_count, config, world, started, front, back>>

\* limited_sonar_scan up to the start of the scanner process: the command,
\* the environment, subprocess.Popen.  A missing setting raises, and the
\* finally of clone_and_scan removes the clone.
limited_sonar_scan(w) ==
    /\ At(w, "limited_sonar_scan")
    /\ LET job == threads[w].job
           host_url == strip(config.SONAR_HOST_URL)
           token == strip(config.SONAR_LOGIN_TOKEN)
           left == [threads[w] EXCEPT !.tmp_dir = None]
       IN
        IF host_url = ""
        THEN /\ threads' = [threads EXCEPT ![w] = [left EXCEPT
                    !.pc = "line93",
                    !.exc = Exc("RuntimeError", <<"Missing SONAR_HOST_URL">>)]]
             /\ tmp_dirs' = rmtree(tmp_dirs, threads[w].tmp_dir[1])
        ELSE IF token = ""
        THEN /\ threads' = [threads EXCEPT ![w] = [left EXCEPT
                    !.pc = "line93",
                    !.cmd = _build_sonar_command(config, job.project_key,
                                job.exclusions, job.inclusions, threads[w].files),
                    !.exc = Exc("RuntimeError", <<"Missing SONAR_LOGIN_TOKEN (required).">>)]]
             /\ tmp_dirs' = rmtree(tmp_dirs, threads[w].tmp_dir[1])
        ELSE /\ threads' = [threads EXCEPT
                    ![w].pc = "proc_wait",
                    ![w].cmd = _build_sonar_command(config, job.project_key,
                                  job.exclusions, job.inclusions, threads[w].files),
                    ![w].env = Some(_build_scanner_env(config, threads[w].job_cache_dir)),
                    ![w].procs = @ \cup {"sonar-scanner"}]
             /\ UNCHANGED tmp_dirs
    /\ UNCHANGED <<task_statuses, task_queue, _worker_started, uuid_count, config, world, started, front, back>>
    /\ UNCHANGED attempts

\* proc.wait() and what follows it: _raise_scanner_failure, the return or
\* raise of limited_sonar_scan, the finally of clone_and_scan, and the except
\* clauses of _process_job that only set locals (lines 81-87, 89-92, 98)
proc_wait(w) ==
    /\ At(w, "proc_wait")
    /\ LET job == threads[w].job
           sonar_url == sonar_dashboard_url(config.SONAR_HOST_URL, job.project_key)
           ran == [threads[w] EXCEPT !.tmp_dir = None]
       IN
        /\ tmp_dirs' = rmtree(tmp_dirs, threads[w].tmp_dir[1])
        /\ \E ret \in world.ret, full_output \in ScannerOutputs :
                    IF ret \notin {0, 2}
                    THEN threads' = [threads EXCEPT ![w] = [ran EXCEPT
                             !.pc = "line93",
                             !.exit_code = ret,
                             !.full_output = full_output,
                             !.exc = _raise_scanner_failure(ret, full_output)]]
                    ELSE IF ret = 2
                    THEN threads' = [threads EXCEPT ![w] = [ran EXCEPT
                             !.pc = "line100",
                             !.exit_code = ret,
                             !.sonar_url = Some(sonar_url),
                             !.final_status = StatusQualityGate,
                             !.error_msg = Some(QualityGateMsg)]]
                    ELSE threads' = [threads EXCEPT ![w] = [ran EXCEPT
                             !.pc = "line100",
                             !.exit_code = ret,
                             !.sonar_url = Some(sonar_url)]]
    /\ UNCHANGED <<task_statuses, task_queue, _worker_started, uuid_count, config, world, started, front, back>>
    /\ UNCHANGED attempts

\* traceback.format_exc()
format_exc(e) == <<"Traceback (most recent call last):\n", e.type, ": ">> \o e.msg

\* line 94: f"Error: {str(e)}\n\n{tb}"
ErrorLog(e) == <<"Error: ">> \o e.msg \o <<"\n\n">> \o format_exc(e)
\* line 118: f"Scan success but screenshot failed: {str(e)}\n\n{tb}"
ScreenshotErrorLog(e) ==
    <<"Scan success but screenshot failed: ">> \o e.msg \o <<"\n\n">> \o format_exc(e)

\* a fatal handler that announces a screenshot
Line93_as_generating(w) == Write(w, "line93", "status", StatusGenerating, "line94", FALSE)
Line93(w) == Write(w, "line93", "status", StatusFatal, "line94", FALSE)
\* a fatal handler whose second write goes to the status
Line94_writes_status(w) == Write(w, "line94", "status", "Error logged", "line127", FALSE)
Line94(w) == Write(w, "line94", "log", Some(ErrorLog(threads[w].exc)), "line127", FALSE)

\* a worker that announces the screenshot before it stores the URL
Line100_status_first(w) == Write(w, "line100", "status", StatusGenerating, "line101", TRUE)
Line100(w) == Write(w, "line100", "sonar_url", threads[w].sonar_url, "line101", TRUE)
Line101(w) ==
    Write(w, "line101", "status", StatusGenerating,
          IF threads[w].error_msg # None THEN "line105" ELSE "line107", TRUE)
Line105(w) == Write(w, "line105", "log", Some(<<threads[w].error_msg[1]>>), "line107", TRUE)

(***************************************************************************)
(* take_sonar_screenshot as _process_job sees it: it returns an info       *)
(* record, returns None (configuration missing, or the browser session     *)
(* failed), or raises (_ensure_screenshot_dir, outside its try).           *)
(***************************************************************************)
\* _get_screenshot_ttl_seconds: the setting is a text, here its characters;
\* str.strip(), then int() of an optional sign and decimal digits
_get_screenshot_ttl_seconds(setting) ==
    LET digits == <<"0", "1", "2", "3", "4", "5", "6", "7", "8", "9">>
        RECURSIVE lstrip(_)
        lstrip(t) == IF t # <<>> /\ Head(t) = " " THEN lstrip(Tail(t)) ELSE t
        RECURSIVE rstrip(_)
        rstrip(t) == IF t # <<>> /\ t[Len(t)] = " " THEN rstrip(SubSeq(t, 1, Len(t) - 1)) ELSE t
        raw == rstrip(lstrip(setting))
        signed == raw # <<>> /\ Head(raw) \in {"+", "-"}
        body == IF signed THEN Tail(raw) ELSE raw
        numeric == body # <<>> /\ \A i \in 1..Len(body) : \E d \in 1..10 : digits[d] = body[i]
        RECURSIVE value(_)
        value(t) == IF t = <<>> THEN 0
                    ELSE 10 * value(SubSeq(t, 1, Len(t) - 1))
                         + (CHOOSE d \in 1..10 : digits[d] = t[Len(t)]) - 1
        hours == IF signed /\ Head(raw) = "-" THEN 0 - value(body) ELSE value(body)
    IN  IF raw = <<>> THEN 24 * 60 * 60
        ELSE IF ~numeric THEN 24 * 60 * 60
        ELSE IF hours <= 0 THEN 0
        ELSE hours * 60 * 60

\* a purge that takes a file that has reached the time-to-live for expired
expired_at_ttl(age, ttl_seconds) == age >= ttl_seconds
\* line 54: now - mtime > ttl_seconds
expired(age, ttl_seconds) == age > ttl_seconds

\* _cleanup_old_screenshots(ttl_seconds): what is left of the directory.
\* entry.name.lower() is the name with its extension in small letters.
_cleanup_old_screenshots(ttl_seconds, dir) ==
    IF ttl_seconds <= 0
    THEN dir
    ELSE {entry \in dir :
            ~(/\ entry.is_file
              /\ (IF entry.ext = ".PNG" THEN ".png" ELSE entry.ext) = ".png"
              /\ expired(entry.age, ttl_seconds))}

\* the file that page.screenshot(path=filepath) writes
ScreenshotFile(project_key) ==
    [name |-> project_key \o "-<uuid4>", ext |-> ".png", is_file |-> TRUE, age |-> 0]

ScreenshotInfo(project_key) ==
    [filename |-> project_key \o "-<uuid4>.png",
     display_url |-> "/static/screenshots/" \o project_key \o "-<uuid4>.png",
     fixed_delay_ms |-> 30000]

\* line 107: screenshot_info = take_sonar_screenshot(project_key, clip_rect=clip_rect)
Line107(w) ==
    /\ At(w, "line107")
    /\ \E outcome \in world.shot :
        /\ threads' = [threads EXCEPT
            ![w].shot = outcome,
            ![w].pc = IF outcome = "raise" THEN "line117" ELSE "line108",
            ![w].screenshot_info =
                IF outcome = "info" THEN Some(ScreenshotInfo(threads[w].job.project_key))
                ELSE None,
            ![w].exc = IF outcome = "raise"
                       THEN Exc("PermissionError", <<"[Errno 13] Permission denied">>)
                       ELSE @]
        /\ screenshot_dir' =
              LET purged == _cleanup_old_screenshots(
                                _get_screenshot_ttl_seconds(config.SCREENSHOT_TTL_HOURS),
                                screenshot_dir)
              IN  IF outcome = "raise" THEN screenshot_dir
                  ELSE IF outcome = "info"
                  THEN purged \cup {ScreenshotFile(threads[w].job.project_key)}
                  ELSE purged
    /\ UNCHANGED <<task_statuses, task_queue, _worker_started, uuid_count, config, world, started>>
    /\ UNCHANGED <<_worker_lock, requests, response, back>>
    /\ UNCHANGED tmp_dirs
    /\ UNCHANGED attempts

(***************************************************************************)
(* take_sonar_screenshot step by step.  A worker's pc inside it is a line  *)
(* of screenshot_service.py ("shot170": about to open the browser, ...,    *)
(* "poll108": at the head of the polling loop).  Every call into the       *)
(* browser succeeds or raises.                                             *)
(***************************************************************************)
\* the function returns info (a record, or None) to line 107 of _process_job
Return(th, sess, info) ==
    [th EXCEPT !.session = sess,
               !.pc = "line108",
               !.shot = IF info = None THEN "null" ELSE "info",
               !.screenshot_info = info]

\* a failure inside the browser session that is left to the caller
Fail_raising(th, sess, where) ==
    [th EXCEPT !.session = [sess EXCEPT !.failed_in = where],
               !.pc = "line117",
               !.shot = "raise",
               !.exc = Exc("TimeoutError", <<"Timeout 30000ms exceeded.">>)]

\* a failure inside the browser session: logged, and None is returned
Fail(th, sess, where) == Return(th, [sess EXCEPT !.failed_in = where], None)

\* the polling is over (or was skipped): on to the fixed delay
Polled(th, sess, how, updated, status, waited) ==
    [th EXCEPT !.pc = "shot233",
               !.session = [sess EXCEPT !.polled = how,
                                        !.quality_gate_updated = updated,
                                        !.quality_gate_status = status,
                                        !.waited_ms = waited]]

\* a step of the session that leaves the screenshot directory as dir
StepDir(w, th, dir) ==
    /\ threads' = [threads EXCEPT ![w] = th]
    /\ screenshot_dir' = dir
    /\ UNCHANGED <<task_statuses, task_queue, _worker_started, uuid_count, config, world, started>>
    /\ UNCHANGED <<_worker_lock, requests, response, back>>
    /\ UNCHANGED <<tmp_dirs, attempts>>

Step(w, th) == StepDir(w, th, screenshot_dir)

\* lines 145-154: the call, _ensure_screenshot_dir (outside the try: it may
\* raise to the caller), the purge, the check of the configuration
take_sonar_screenshot(w) ==
    /\ At(w, "line107")
    /\ \E selector \in {None, Some("#overview")},
          clip_rect \in {{}, {"x", "y", "width"}, {"x", "y", "width", "height"}},
          dir_ok \in BOOLEAN :
        LET purged == _cleanup_old_screenshots(
                          _get_screenshot_ttl_seconds(config.SCREENSHOT_TTL_HOURS),
                          screenshot_dir)
            sess == [NoSession EXCEPT !.selector = selector, !.clip_rect = clip_rect,
                                      !.removed = IF dir_ok THEN screenshot_dir \ purged ELSE {}]
        IN
        IF ~dir_ok
        THEN Step(w, [threads[w] EXCEPT
                 !.session = sess, !.pc = "line117", !.shot = "raise",
                 !.exc = Exc("PermissionError", <<"[Errno 13] Permission denied">>)])
        ELSE IF "" \in {config.SONARQUBE_WEB_URL, config.SONAR_USERNAME, config.SONAR_PASSWORD}
        THEN StepDir(w, Return(threads[w], sess, None), purged)
        ELSE StepDir(w, [threads[w] EXCEPT !.session = sess, !.pc = "shot170"], purged)

\* lines 170-188: the browser is launched, then the login
sync_playwright(w) ==
    /\ At(w, "shot170")
    /\ \E launched \in BOOLEAN, logged_in \in BOOLEAN :
        LET sess == threads[w].session IN
        IF ~launched
        THEN Step(w, Fail(threads[w], sess, "launch"))
        ELSE IF ~logged_in
        THEN Step(w, Fail(threads[w], [sess EXCEPT !.browser = "closed"], "login"))
        ELSE Step(w, [threads[w] EXCEPT
                 !.pc = "shot194",
                 !.session = [sess EXCEPT !.browser = "open",
                                          !.steps = Append(@, "login")]])

\* lines 194-207: the dashboard is opened (the wait for its panel may fail
\* and is ignored), the badge selector is looked up: the first candidate
\* that matches, or None
goto_dashboard(w) ==
    /\ At(w, "shot194")
    /\ \E loaded \in BOOLEAN, matching \in SUBSET (1..Len(candidate_selectors)) :
        LET sess == threads[w].session
            badge_selector ==
                IF matching = {} THEN None
                ELSE Some(candidate_selectors[CHOOSE i \in matching : \A j \in matching : i <= j])
            opened == [sess EXCEPT !.steps = Append(@, "navigate"),
                                   !.badge_selector = badge_selector]
        IN
        IF ~loaded
        THEN Step(w, Fail(threads[w], sess, "navigate"))
        ELSE IF badge_selector = None
        THEN Step(w, Polled(threads[w], opened, "skipped", FALSE, None, 0))
        ELSE Step(w, [threads[w] EXCEPT !.pc = "poll99", !.session = opened])

\* _wait_for_quality_gate_update, lines 95-105: the clock is started, then
\* the initial read (which may take a millisecond of the scaled clock)
_wait_for_quality_gate_update(w) ==
    /\ At(w, "poll99")
    /\ \E read \in BadgeReads, cost \in {0, 1} :
        LET sess == [threads[w].session EXCEPT !.steps = Append(@, "poll")] IN
        IF read = None
        THEN Step(w, Polled(threads[w], sess, "unread", FALSE, None, 0))
        ELSE Step(w, [threads[w] EXCEPT
                 !.pc = "poll108",
                 !.session = [sess EXCEPT !.prev_text = read, !.latest_text = read,
                                          !.clock = cost]])

\* line 109: the maximum wait has elapsed
timed_out_late(elapsed_ms) == elapsed_ms >= max_wait_ms + max_wait_ms
timed_out(elapsed_ms) == elapsed_ms >= max_wait_ms

\* line 120: the text read last is not the initial text
badge_changed_if_read(latest_text, prev_text) == latest_text # None
badge_changed(latest_text, prev_text) == latest_text # prev_text

\* lines 107-124: the head of the loop (the timeout), the re-read (a failed
\* one leaves latest_text as it was; the read itself may take a millisecond
\* of the scaled clock), the comparison with the initial text
poll_reread(w) ==
    /\ At(w, "poll108")
    /\ \E read \in BadgeReads, cost \in {0, 1} :
        LET sess == threads[w].session
            elapsed_ms == sess.clock
            latest_text == IF read = None THEN sess.latest_text ELSE read
            reread == [sess EXCEPT !.latest_text = latest_text,
                                   !.reads = @ + 1, !.clock = @ + cost]
        IN
        IF timed_out(elapsed_ms)
        THEN Step(w, Polled(threads[w], sess, "timeout", FALSE, sess.latest_text, elapsed_ms))
        ELSE IF badge_changed(latest_text, sess.prev_text)
        THEN Step(w, Polled(threads[w], reread, "changed", TRUE, latest_text, elapsed_ms))
        ELSE Step(w, [threads[w] EXCEPT !.pc = "poll126", !.session = reread])

\* line 126: page.wait_for_timeout(interval_ms); when it raises the polling
\* has crashed (lines 224-225) and its results stay as initialised
poll_wait(w) ==
    /\ At(w, "poll126")
    /\ \E waited \in BOOLEAN :
        LET sess == threads[w].session IN
        IF waited
        THEN Step(w, [threads[w] EXCEPT
                 !.pc = "poll108",
                 !.session = [sess EXCEPT !.clock = @ + interval_ms]])
        ELSE Step(w, Polled(threads[w], sess, "crashed", FALSE, None, 0))

\* a capture that follows a change of the badge at once
fixed_delay_unless_changed(w) ==
    /\ At(w, "shot233")
    /\ \E waited \in BOOLEAN :
        LET sess == threads[w].session IN
        IF ~waited
        THEN Step(w, Fail(threads[w], sess, "settle"))
        ELSE Step(w, [threads[w] EXCEPT
                 !.pc = "shot238",
                 !.session = IF sess.polled = "changed" THEN sess
                             ELSE [sess EXCEPT !.steps = Append(@, "settle"),
                                               !.delayed = @ + fixed_delay_ms]])

\* line 233: page.wait_for_timeout(fixed_delay_ms)
fixed_delay(w) ==
    /\ At(w, "shot233")
    /\ \E waited \in BOOLEAN :
        LET sess == threads[w].session IN
        IF ~waited
        THEN Step(w, Fail(threads[w], sess, "settle"))
        ELSE Step(w, [threads[w] EXCEPT
                 !.pc = "shot238",
                 !.session = [sess EXCEPT !.steps = Append(@, "settle"),
                                          !.delayed = @ + fixed_delay_ms]])

\* a choice of mode that looks at the selector first
capture_mode_selector_first(clip_rect, selector) ==
    IF selector # None THEN "element"
    ELSE IF {"x", "y", "width", "height"} \subseteq clip_rect THEN "clip"
    ELSE "full_page"

\* the capture mode of lines 242-250
capture_mode(clip_rect, selector) ==
    IF {"x", "y", "width", "height"} \subseteq clip_rect THEN "clip"
    ELSE IF selector # None THEN "element"
    ELSE "full_page"

\* lines 238-263: the capture (of an element: with the full page as its
\* fallback), browser.close() in the finally, the info record
page_screenshot(w) ==
    /\ At(w, "shot238")
    /\ \E first \in BOOLEAN, fallback \in BOOLEAN, closed \in BOOLEAN :
        LET sess == threads[w].session
            mode == capture_mode(sess.clip_rect, sess.selector)
            captured == IF first THEN <<mode>>
                        ELSE IF mode = "element" /\ fallback THEN <<"full_page">>
                        ELSE <<>>
            done == [sess EXCEPT !.steps = Append(@, "capture"),
                                 !.captured = captured,
                                 !.browser = "closed"]
            info == [quality_gate_updated |-> sess.quality_gate_updated,
                     quality_gate_status |-> sess.quality_gate_status,
                     waited_ms |-> sess.waited_ms]
                    @@ ScreenshotInfo(threads[w].job.project_key)
            written == screenshot_dir \cup {ScreenshotFile(threads[w].job.project_key)}
        IN
        IF captured = <<>>
        THEN Step(w, Fail(threads[w], done, "capture"))
        ELSE IF ~closed
        THEN StepDir(w, Fail(threads[w], done, "close"), written)
        ELSE StepDir(w, Return(threads[w], done, Some(info)), written)

\* a worker that stores no screenshot result
Line108_drops_info(w) == Write(w, "line108", "screenshot_info", None, "line111", TRUE)
Line108(w) == Write(w, "line108", "screenshot_info", threads[w].screenshot_info, "line111", TRUE)
Line111(w) == Write(w, "line111", "status", threads[w].final_status, "line127", TRUE)

Line117(w) == Write(w, "line117", "status", StatusScreenshotError, "line118", FALSE)
Line118(w) == Write(w, "line118", "log", Some(ScreenshotErrorLog(threads[w].exc)), "line127", FALSE)

\* a loop that puts a failed job back on the queue
Line127_requeue_failed(w) ==
    /\ At(w, "line127")
    /\ threads' = [threads EXCEPT ![w] = Thread("line123")]
    /\ task_queue' = IF threads[w].exc # NoExc
                     THEN Append(task_queue, threads[w].job)
                     ELSE task_queue
    /\ UNCHANGED <<task_statuses, _worker_started, uuid_count, config, world, started, front, back>>
    /\ UNCHANGED <<tmp_dirs, attempts>>

\* line 127: task_queue.task_done(); an exception that left _process_job
\* then leaves _worker_loop and the thread ends
Line127(w) ==
    /\ At(w, "line127")
    /\ threads' = [threads EXCEPT ![w] =
                      IF threads[w].uncaught THEN Thread("dead") ELSE Thread("line123")]
    /\ UNCHANGED <<task_statuses, task_queue, _worker_started, uuid_count, config, world, started, front, back>>
    /\ UNCHANGED tmp_dirs
    /\ UNCHANGED attempts

\* POST /repo-scan: a request that validate_request refuses is answered 400
\* and changes nothing; any other is handed to create_task
repo_scan(req) ==
    /\ validate_request(req.repo_url, req.branch_name, req.project_key)
    /\ create_task(req)

Submit == \E req \in Requests : repo_scan(req)
\* every step of a worker but the screenshot call of line 107
_process_job(w) ==
    \/ Dequeue(w)
    \/ Line66(w)
    \/ limited_clone(w)
    \/ limited_sonar_scan(w)
    \/ proc_wait(w)
    \/ Line93(w)
    \/ Line94(w)
    \/ Line100(w)
    \/ Line101(w)
    \/ Line105(w)
    \/ Line108(w)
    \/ Line111(w)
    \/ Line117(w)
    \/ Line118(w)
    \/ Line127(w)

Worker == \E w \in DOMAIN threads : _process_job(w) \/ Line107(w)

\* the worker with take_sonar_screenshot step by step
WorkerScreenshot ==
    \E w \in DOMAIN threads :
        \/ _process_job(w)
        \/ take_sonar_screenshot(w)
        \/ sync_playwright(w)
        \/ goto_dashboard(w)
        \/ _wait_for_quality_gate_update(w)
        \/ poll_reread(w)
        \/ poll_wait(w)
        \/ fixed_delay(w)
        \/ page_screenshot(w)

(***************************************************************************)
(* create_task step by step, as the request threads of the server run it   *)
(* side by side.  A request thread's pc is a line of app/tasks.py.         *)
(***************************************************************************)
\* a lock that lets every thread in
acquirable_always(lock) == TRUE
\* threading.Lock: free for the thread that asks for it
acquirable(lock) == lock = 0

AtCall(c, at) == requests[c].pc = at

\* the request threads that have called create_task and have no task id yet
Calling == {c \in Callers : requests[c].pc \notin {"idle", "line183"}}

\* a request thread calls create_task(req)
call_create_task(c) ==
    /\ AtCall(c, "idle")
    /\ uuid_count + Cardinality(Calling) < MaxTasks
    /\ \E req \in Requests :
          requests' = [requests EXCEPT ![c] = [Idle EXCEPT !.pc = "line132", !.req = Some(req)]]
    /\ UNCHANGED <<task_statuses, task_queue, _worker_started, threads, uuid_count,
                   config, world, tmp_dirs, attempts, started, _worker_lock, response, screenshot_dir, back>>

\* _ensure_workers_started, lines 132-134: the lock is taken; with the
\* flag set the function returns (and the lock is free again)
with_worker_lock(c) ==
    /\ AtCall(c, "line132")
    /\ acquirable(_worker_lock)
    /\ IF _worker_started
       THEN /\ requests' = [requests EXCEPT ![c].pc = "line155"]
            /\ UNCHANGED _worker_lock
       ELSE /\ requests' = [requests EXCEPT ![c].pc = "line135", ![c].i = 0]
            /\ _worker_lock' = c
    /\ UNCHANGED <<task_statuses, task_queue, _worker_started, threads, uuid_count,
                   config, world, tmp_dirs, attempts, started, response, screenshot_dir, back>>

\* lines 135-137, one round of the loop: a worker thread is made and started
Thread_start(c) ==
    /\ AtCall(c, "line135")
    /\ requests[c].i < _num_workers
    /\ LET w == requests[c].i + 1 IN
        /\ threads' = [threads EXCEPT ![w] = IF @.pc = "unstarted" THEN Thread("line123") ELSE @]
        /\ requests' = [requests EXCEPT ![c].i = w]
    /\ started' = started + 1
    /\ UNCHANGED <<task_statuses, task_queue, _worker_started, uuid_count,
                   config, world, tmp_dirs, attempts, _worker_lock, response, screenshot_dir, back>>

\* lines 138-139: the flag is set, the with block ends
set_worker_started(c) ==
    /\ AtCall(c, "line135")
    /\ requests[c].i = _num_workers
    /\ _worker_started' = TRUE
    /\ _worker_lock' = 0
    /\ requests' = [requests EXCEPT ![c].pc = "line155"]
    /\ UNCHANGED <<task_statuses, task_queue, threads, uuid_count,
                   config, world, tmp_dirs, attempts, started, response, screenshot_dir, back>>

\* _cleanup_old_tasks, lines 45-48: the keys to remove, oldest first
keys_to_remove(c) ==
    /\ AtCall(c, "line155")
    /\ LET excess == Len(task_statuses) - MAX_TASK_HISTORY IN
        requests' = [requests EXCEPT
            ![c].pc = IF excess > 0 THEN "line49" ELSE "line158",
            ![c].keys_to_remove = IF excess > 0 THEN SubSeq(Keys(task_statuses), 1, excess)
                                  ELSE <<>>]
    /\ UNCHANGED <<task_statuses, task_queue, _worker_started, threads, uuid_count,
                   config, world, tmp_dirs, attempts, started, _worker_lock, response, screenshot_dir, back>>

\* lines 49-50, one round of the loop: del task_statuses[k]; a key that is
\* no longer there raises KeyError, which ends create_task
del_task(c) ==
    /\ AtCall(c, "line49")
    /\ LET k == Head(requests[c].keys_to_remove)
           rest == Tail(requests[c].keys_to_remove)
       IN
        IF Has(task_statuses, k)
        THEN /\ task_statuses' = SelectSeq(task_statuses, LAMBDA r : r.task_id # k)
             /\ requests' = [requests EXCEPT
                    ![c].pc = IF rest = <<>> THEN "line158" ELSE "line49",
                    ![c].keys_to_remove = rest]
        ELSE /\ requests' = [requests EXCEPT ![c] = [Idle EXCEPT !.raised = TRUE]]
             /\ UNCHANGED task_statuses
    /\ UNCHANGED <<task_queue, _worker_started, threads, uuid_count,
                   config, world, tmp_dirs, attempts, started, _worker_lock, response, screenshot_dir, back>>

\* lines 158-171: task_id = str(uuid.uuid4()), and the record is stored
store_record(c) ==
    /\ AtCall(c, "line158")
    /\ LET task_id == uuid_count + 1 IN
        /\ uuid_count' = task_id
        /\ task_statuses' = Append(task_statuses, NewRecord(task_id, requests[c].req[1]))
        /\ requests' = [requests EXCEPT ![c].pc = "line183", ![c].task_id = task_id]
    /\ UNCHANGED <<task_queue, _worker_started, threads,
                   config, world, tmp_dirs, attempts, started, _worker_lock, response, screenshot_dir, back>>

\* lines 173-185: task_queue.put(job), and create_task returns
queue_put(c) ==
    /\ AtCall(c, "line183")
    /\ task_queue' = Append(task_queue, NewJob(requests[c].task_id, requests[c].req[1]))
    /\ requests' = [requests EXCEPT ![c] = Idle]
    /\ UNCHANGED <<task_statuses, _worker_started, threads, uuid_count,
                   config, world, tmp_dirs, attempts, started, _worker_lock, response, screenshot_dir, back>>

RequestThreads ==
    \E c \in Callers :
        \/ call_create_task(c)
        \/ with_worker_lock(c)
        \/ Thread_start(c)
        \/ set_worker_started(c)
        \/ keys_to_remove(c)
        \/ del_task(c)
        \/ store_record(c)
        \/ queue_put(c)

Next == Submit \/ Worker

Spec == Init /\ [][Next]_vars

\* the same, with every worker thread scheduled again and again
SpecFair == Spec /\ \A w \in Workers : WF_vars(_process_job(w) \/ Line107(w))

(***************************************************************************)
(* One job on its own: the state right after the first create_task(req),   *)
(* for every request of GuardRequests, and the worker steps from there.    *)
(***************************************************************************)
InitOneJob ==
    /\ \E req \in GuardRequests :
        /\ task_statuses = <<NewRecord(1, req)>>
        /\ task_queue = <<NewJob(1, req)>>
    /\ _worker_started = TRUE
    /\ threads = [w \in Workers |-> Thread("line123")]
    /\ uuid_count = 1
    /\ config \in ScannerConfigs
    /\ world = AnyWorld
    /\ tmp_dirs = {}
    /\ attempts = NoAttempts
    /\ started = IF _worker_started THEN _num_workers ELSE 0
    /\ _worker_lock = 0
    /\ requests = NoRequests
    /\ response = None
    /\ screenshot_dir = {}
    /\ InitBack

SpecOneJob == InitOneJob /\ [][Worker]_vars

(***************************************************************************)
(* Two jobs and two workers: the process started with WORKER_CONCURRENCY=2 *)
(* (_num_workers is read from the environment), in the state right after   *)
(* its first two create_task calls, and the worker steps from there.  The  *)
(* requests are those that pass the credential guard.                      *)
(***************************************************************************)
ScanRequests == {req \in GuardRequests : ~_looks_like_credentialed_url(req.repo_url)}

InitTwoWorkers ==
    /\ \E r1 \in ScanRequests, r2 \in ScanRequests :
        /\ task_statuses = <<NewRecord(1, r1), NewRecord(2, r2)>>
        /\ task_queue = <<NewJob(1, r1), NewJob(2, r2)>>
    /\ _worker_started = TRUE
    /\ threads = [w \in {1, 2} |-> Thread("line123")]
    /\ uuid_count = 2
    /\ \E e \in Environments : config = e[1] /\ world = e[2]
    /\ tmp_dirs = {}
    /\ attempts = NoAttempts
    /\ started = 2
    /\ _worker_lock = 0
    /\ requests = NoRequests
    /\ response = None
    /\ screenshot_dir = {}
    /\ InitBack

SpecTwoWorkers == InitTwoWorkers /\ [][Worker]_vars

(***************************************************************************)
(* One job whose clone succeeds, with the screenshot step taken step by    *)
(* step and called with every selector and clip rectangle (the worker      *)
(* itself passes no selector and the default rectangle).                   *)
(***************************************************************************)
InitScreenshot ==
    /\ \E req \in ScanRequests :
        /\ task_statuses = <<NewRecord(1, req)>>
        /\ task_queue = <<NewJob(1, req)>>
    /\ _worker_started = TRUE
    /\ threads = [w \in Workers |-> Thread("line123")]
    /\ uuid_count = 1
    /\ config \in ScreenshotConfigs
    /\ world = [AnyWorld EXCEPT !.git = {"cloned"}, !.files = {{}}]
    /\ tmp_dirs = {}
    /\ attempts = NoAttempts
    /\ started = IF _worker_started THEN _num_workers ELSE 0
    /\ _worker_lock = 0
    /\ requests = NoRequests
    /\ response = None
    /\ screenshot_dir = {}
    /\ InitBack

SpecScreenshot == InitScreenshot /\ [][WorkerScreenshot]_vars

\* the same, with a worker thread that is never left waiting for ever
SpecScreenshotFair == SpecScreenshot /\ WF_vars(WorkerScreenshot)

(***************************************************************************)
(* The purge on its own: one job, a screenshot directory that holds any of *)
(* DirEntries, any of TtlSettings as SCREENSHOT_TTL_HOURS, and the worker  *)
(* up to the start of the browser session.                                 *)
(***************************************************************************)
TtlSettings ==
    { <<>>, <<" ">>, <<"a", "b", "c">>, <<"1", ".", "5">>, <<"0">>, <<"-", "1">>,
      <<"1">>, <<"2", "4">>, <<" ", "2", " ">> }

DirEntries ==
    { [name |-> "a", ext |-> ".png", is_file |-> TRUE, age |-> 86401],
      [name |-> "b", ext |-> ".png", is_file |-> TRUE, age |-> 86400],
      [name |-> "c", ext |-> ".png", is_file |-> TRUE, age |-> 3601],
      [name |-> "d", ext |-> ".PNG", is_file |-> TRUE, age |-> 90000],
      [name |-> "notes", ext |-> ".txt", is_file |-> TRUE, age |-> 90000],
      [name |-> "old", ext |-> ".png", is_file |-> FALSE, age |-> 90000] }

InitPurge ==
    /\ \E req \in Requests :
        /\ task_statuses = <<NewRecord(1, req)>>
        /\ task_queue = <<NewJob(1, req)>>
    /\ _worker_started = TRUE
    /\ threads = [w \in Workers |-> Thread("line123")]
    /\ uuid_count = 1
    /\ \E c \in ScreenshotConfigs, ttl \in TtlSettings :
          config = [c EXCEPT !.SCREENSHOT_TTL_HOURS = ttl]
    /\ world = [AnyWorld EXCEPT !.git = {"cloned"}, !.files = {{}}]
    /\ tmp_dirs = {}
    /\ attempts = NoAttempts
    /\ started = _num_workers
    /\ _worker_lock = 0
    /\ requests = NoRequests
    /\ response = None
    /\ screenshot_dir \in SUBSET DirEntries
    /\ InitBack

SpecPurge ==
    InitPurge /\ [][\E w \in DOMAIN threads : _process_job(w) \/ take_sonar_screenshot(w)]_vars

\* the request threads on their own, from the start of the process
SpecRequests == Init /\ [][RequestThreads]_vars

(***************************************************************************)
(* The status route on its own: one task that has ended, with every log of *)
(* up to MaxLogChars characters (the worker writes the log as one text),   *)
(* and the requests for its status.                                        *)
(***************************************************************************)
MaxLogChars == 3

RECURSIVE Texts(_)
Texts(n) ==
    IF n = 0 THEN {<<>>}
    ELSE Texts(n - 1) \cup {Append(t, ch) : t \in Texts(n - 1), ch \in Chars}

InitStatus ==
    /\ \E req \in Requests, log \in {None} \cup {Some(text) : text \in Texts(MaxLogChars)} :
          /\ task_statuses =
                << [NewRecord(1, req) EXCEPT
                       !.status = IF log = None THEN StatusQueued ELSE StatusFatal,
                       !.log = log] >>
          /\ task_queue = IF log = None THEN <<NewJob(1, req)>> ELSE <<>>
          /\ attempts = IF log = None THEN NoAttempts
                        ELSE [NoAttempts EXCEPT ![1] = [dequeued |-> 1, scanned |-> 1]]
    /\ _worker_started = TRUE
    /\ threads = [w \in Workers |-> Thread("line123")]
    /\ uuid_count = 1
    /\ \E e \in Environments : config = e[1] /\ world = e[2]
    /\ tmp_dirs = {}
    /\ started = _num_workers
    /\ _worker_lock = 0
    /\ requests = NoRequests
    /\ response = None
    /\ screenshot_dir = {}
    /\ InitBack

SpecStatus == InitStatus /\ [][status_request]_vars

(***************************************************************************)
(* Properties.                                                             *)
(***************************************************************************)
TaskOf(w) == threads[w].job.task_id
Stored(w) == Has(task_statuses, TaskOf(w))
Record(w) == Get(task_statuses, TaskOf(w))

\* the worker has left _process_job for its current job
Finished(w) == At(w, "line127")

\* C1: no failure while processing one job terminates the worker thread:
\* every started worker stays in its loop.
C1_WorkersNeverTerminate == \A w \in Workers : threads[w].pc # "dead"

\* C2: the task store never holds more than MAX_TASK_HISTORY records,
\* the state right after create_task returns included.
C2_StoreWithinMaxHistory == Len(task_statuses) <= MAX_TASK_HISTORY

\* C3: whenever a step removes records from the store, the removed records
\* are the oldest-inserted ones (a prefix of the store's insertion order, so
\* nothing older than a removed record stays), and the removal stops as soon
\* as the records that were there are back at capacity.
Removed == {Keys(task_statuses)[i] : i \in 1..Len(task_statuses)}
             \ {Keys(task_statuses')[i] : i \in 1..Len(task_statuses')}

C3_EvictsOldestFirst ==
    [][ Removed # {} =>
          /\ \E n \in 1..Len(task_statuses) :
                Removed = {Keys(task_statuses)[i] : i \in 1..n}
          /\ Len(task_statuses) - Cardinality(Removed) = MAX_TASK_HISTORY
      ]_vars

\* an eviction has happened while an older and a newer record were at stake
C3_Witness ==
    /\ uuid_count > Len(task_statuses)
    /\ Len(task_statuses) > 1

\* C4: in every reachable state at most _num_workers tasks have the status
\* "Running" or "Generating Screenshot".
InProgress ==
    {i \in 1..Len(task_statuses) :
        task_statuses[i].status \in {"Running", "Generating Screenshot"}}

C5_GetAfterCreateObservesQueued ==
    uuid_count > 0 => task_status_route(uuid_count) = "Queued"

\* C5 (amended): a get of a stored task whose job is still waiting in the
\* queue observes "Queued".
InQueue(id) == \E i \in 1..Len(task_queue) : task_queue[i].task_id = id

C5_GetObservesQueuedWhileJobWaits ==
    \A id \in 1..uuid_count :
        (InQueue(id) /\ Has(task_statuses, id)) => task_status_route(id) = "Queued"

\* the latest task is stored, its job waits behind a job being processed
C5_Witness ==
    /\ uuid_count > 1
    /\ InQueue(uuid_count)
    /\ Has(task_statuses, uuid_count)
    /\ \E w \in Workers : threads[w].pc \notin {"unstarted", "line123", "dead"}

\* C6: whenever the scanner exited with code 2, the task's final status is
\* "Failed: Quality Gate" and its sonar_url is non-null and equals
\* <host>/dashboard?id=<project_key>.
C6_Exit2EndsFailedQualityGate ==
    \A w \in Workers :
        (Finished(w) /\ threads[w].exit_code = 2 /\ Stored(w)) =>
            /\ Record(w).status = "Failed: Quality Gate"
            /\ Record(w).sonar_url # None
            /\ Record(w).sonar_url =
                 Some(config.SONAR_HOST_URL \o "/dashboard?id=" \o Record(w).project_key)

\* is `part` a run of consecutive segments of `whole`
Within(part, whole) ==
    \E i \in 0..(Len(whole) - Len(part)) : SubSeq(whole, i + 1, i + Len(part)) = part

\* C7: whenever the scanner exited with a code other than 0 or 2, the
\* task's final status is "Failed: An error occurred", its log contains the
\* captured combined scanner output, and its sonar_url stays null.
C7_FatalExitEndsFailedWithOutput ==
    \A w \in Workers :
        (Finished(w) /\ threads[w].exit_code \notin {NoExit, 0, 2} /\ Stored(w)) =>
            /\ Record(w).status = "Failed: An error occurred"
            /\ Record(w).log # None
            /\ Within(threads[w].full_output, Record(w).log[1])
            /\ Record(w).sonar_url = None

C7_Witness ==
    \E w \in Workers :
        /\ Finished(w)
        /\ threads[w].exit_code = 1
        /\ Len(threads[w].full_output) = 2
        /\ Stored(w)

\* C8: once clone_and_scan has returned or raised, the temporary directory
\* it created no longer exists.
InCloneAndScan == {"line75", "limited_sonar_scan", "proc_wait"}

C8_TmpDirRemovedAfterCloneAndScan ==
    \A w \in Workers :
        (threads[w].made_dir # None /\ threads[w].pc \notin InCloneAndScan) =>
            threads[w].made_dir[1] \notin tmp_dirs

\* C9: if the scan succeeded (exit 0) and the screenshot step raised, the
\* task's final status is "Failed: Screenshot Error" and its sonar_url is
\* still the value the scan step set.
C9_ScreenshotRaiseEndsScreenshotError ==
    \A w \in Workers :
        (Finished(w) /\ threads[w].exit_code = 0 /\ threads[w].shot = "raise" /\ Stored(w)) =>
            /\ Record(w).status = "Failed: Screenshot Error"
            /\ Record(w).sonar_url # None
            /\ Record(w).sonar_url = threads[w].sonar_url

C9_Witness ==
    \E w \in Workers :
        /\ Finished(w)
        /\ threads[w].exit_code = 0
        /\ threads[w].shot = "raise"
        /\ Stored(w)

\* C10: a repo_url that contains "@" or a recognized token is rejected
\* before any temporary directory is created and before any git or scanner
\* process is spawned.
CredentialedUrls == {BasicAuthUrl, TokenUrl, PatUrl}

C10_CredentialedUrlTouchesNothing ==
    \A w \in Workers :
        threads[w].job.repo_url \in CredentialedUrls =>
            /\ threads[w].made_dir = None
            /\ threads[w].procs = {}
            /\ tmp_dirs = {}
            /\ threads[w].pc \in {"line66", "line75", "line93", "line94", "line127"}
            /\ threads[w].pc \in {"line93", "line94", "line127"} =>
                  threads[w].exc.type = "ValueError"

\* the guard has rejected a URL that carries a token and no "@"
C10_Witness ==
    \E w \in Workers :
        /\ At(w, "line94")
        /\ threads[w].job.repo_url = PatUrl
        /\ threads[w].exc.type = "ValueError"
        /\ Record(w).status = "Failed: An error occurred"

\* C11: a submission whose repo_url is credentialed is refused to the
\* submitter at once and never enters the queue: no task record and no
\* queued job exist for it.
C11_NoCredentialedSubmissionAccepted ==
    /\ \A i \in 1..Len(task_statuses) : task_statuses[i].repo_url \notin CredentialedUrls
    /\ \A i \in 1..Len(task_queue) : task_queue[i].repo_url \notin CredentialedUrls

TerminalLabels ==
    {"Completed", "Failed: Quality Gate", "Failed: An error occurred",
     "Failed: Screenshot Error"}
Labels == {"Queued", "Running", "Generating Screenshot"} \cup TerminalLabels

\* the status of task id before and after a step that keeps its record
StatusBefore(id) == Get(task_statuses, id).status
StatusAfter(id) == Get(task_statuses', id).status
Kept(id) == Has(task_statuses, id) /\ Has(task_statuses', id)

\* C12: once a task's status is one of the four terminal labels, no later
\* step of any worker changes it.
C12_TerminalStatusIsFinal ==
    [][ \A id \in 1..uuid_count :
            (Kept(id) /\ StatusBefore(id) \in TerminalLabels) =>
                StatusAfter(id) = StatusBefore(id)
      ]_vars

\* a worker has written to a record after that record's terminal status
C12_Witness ==
    \E w \in Workers :
        /\ Finished(w)
        /\ Stored(w)
        /\ Record(w).status = "Failed: An error occurred"
        /\ Record(w).log # None

\* C13: a status is always one of the six labels and changes only along
\* Queued -> Running -> (Generating Screenshot) -> terminal: never backwards,
\* never past Running, and to Generating Screenshot only from Running.
StatusMoves ==
    ({"Queued"} \X {"Running"})
    \cup ({"Running"} \X ({"Generating Screenshot"} \cup TerminalLabels))
    \cup ({"Generating Screenshot"} \X TerminalLabels)

C13_StatusFollowsLifecycle ==
    /\ [](\A i \in 1..Len(task_statuses) : task_statuses[i].status \in Labels)
    /\ [][ \A id \in 1..uuid_count :
              (Kept(id) /\ StatusAfter(id) # StatusBefore(id)) =>
                  <<StatusBefore(id), StatusAfter(id)>> \in StatusMoves
         ]_vars

\* a task has gone the whole way to Completed, another has stopped at Running
C13_Witness ==
    /\ \E w \in Workers :
          /\ Finished(w)
          /\ Stored(w)
          /\ Record(w).status = "Completed"
          /\ threads[w].shot = "info"
    /\ uuid_count > 1

\* C14: when the scan was a quality-gate failure, the task's final status
\* is "Failed: Quality Gate" whatever the screenshot step did: returned an
\* info record, returned null, or raised.
C14_QualityGateWhateverScreenshot ==
    \A w \in Workers :
        (/\ Finished(w)
         /\ threads[w].final_status = "Failed: Quality Gate"
         /\ threads[w].shot \in {"info", "null", "raise"}
         /\ Stored(w)) =>
            Record(w).status = "Failed: Quality Gate"

\* clone_and_scan raised something other than QualityGateFailed: the
\* exception the worker holds is one that only limited_clone and
\* limited_sonar_scan raise
ScanRaised(w) == threads[w].exc.type \in {"ValueError", "RuntimeError", "OSError"}

\* C15: when clone_and_scan raises anything other than the quality-gate
\* result, the task goes from Running directly to "Failed: An error
\* occurred" and the screenshot step is never invoked for it.
C15_ScanErrorEndsFailedWithoutScreenshot ==
    \A w \in Workers :
        ScanRaised(w) =>
            /\ threads[w].shot = "none"
            /\ threads[w].screenshot_info = None
            /\ threads[w].pc \in {"line93", "line94", "line127"}
            /\ Stored(w) =>
                  /\ Record(w).screenshot_info = None
                  /\ Record(w).status =
                        IF At(w, "line93") THEN "Running" ELSE "Failed: An error occurred"

\* a clone failure and nothing else has ended a task
C15_Witness ==
    \E w \in Workers :
        /\ Finished(w)
        /\ threads[w].exc.type = "RuntimeError"
        /\ threads[w].procs = {"git"}
        /\ Stored(w)
        /\ Record(w).status = "Failed: An error occurred"

\* C16: when the scanner exits 0 and the screenshot step returns a value v
\* (an info record, or null), the task's final status is "Completed", its
\* screenshot_info equals v and its sonar_url is <host>/dashboard?id=<key>.
C16_Exit0EndsCompleted ==
    \A w \in Workers :
        (/\ Finished(w)
         /\ threads[w].exit_code = 0
         /\ threads[w].shot \in {"info", "null"}
         /\ Stored(w)) =>
            /\ Record(w).status = "Completed"
            /\ Record(w).screenshot_info = threads[w].screenshot_info
            /\ (threads[w].shot = "null") = (Record(w).screenshot_info = None)
            /\ Record(w).sonar_url =
                 Some(config.SONAR_HOST_URL \o "/dashboard?id=" \o threads[w].job.project_key)

C16_Witness ==
    \E w \in Workers :
        /\ Finished(w)
        /\ threads[w].exit_code = 0
        /\ threads[w].shot = "info"
        /\ Stored(w)
        /\ Record(w).screenshot_info # None
        /\ Record(w).sonar_url = Some("https://sonar.example/dashboard?id=acme_widgets")

\* the fields of a record or job that echo the submission
Echo(r) == <<r.repo_url, r.branch_name, r.project_key>>

\* every step leaves the echo of a record it keeps as it was, and a record
\* that appears carries what the job enqueued with it carries
EchoKept ==
    \A id \in 1..uuid_count' :
        /\ Kept(id) => Echo(Get(task_statuses', id)) = Echo(Get(task_statuses, id))
        /\ (~Has(task_statuses, id) /\ Has(task_statuses', id)) =>
              /\ Len(task_queue') = Len(task_queue) + 1
              /\ task_queue'[Len(task_queue')].task_id = id
              /\ Echo(Get(task_statuses', id)) = Echo(task_queue'[Len(task_queue')])
              /\ Echo(Get(task_statuses', id)) \in {Echo(req) : req \in Requests}

\* C17 (as stated): every later get of a created task's id returns a record,
\* and its repo_url, branch_name and project_key are the submitted values.
C17_EveryGetEchoesSubmission ==
    /\ [](\A id \in 1..uuid_count : Has(task_statuses, id))
    /\ [][EchoKept]_vars

\* C17 (amended): every later get of a created task's id that still finds
\* the record returns the submitted repo_url, branch_name and project_key,
\* whatever the worker has done to the task in between.
C17_GetEchoesSubmissionWhileStored == [][EchoKept]_vars

\* a worker has taken a task through to its last write and left the echo
C17_Witness ==
    \E w \in Workers :
        /\ Finished(w)
        /\ Stored(w)
        /\ Record(w).status \in TerminalLabels
        /\ Record(w).sonar_url # None
        /\ Echo(Record(w)) = <<CleanUrl, "main", "acme_widgets">>

\* C18: a status query never observes a torn update of a record: a new
\* status together with the not-yet-updated log or sonar_url of the same
\* transition.
C18_NoTornRecord ==
    \A i \in 1..Len(task_statuses) :
        LET t == task_statuses[i] IN
        /\ t.status = "Failed: An error occurred" => t.log # None
        /\ t.status = "Failed: Screenshot Error" =>
              (t.log # None /\ t.log[1][1] = "Scan success but screenshot failed: ")
        /\ t.status \in {"Queued", "Running"} => t.sonar_url = None

\* how many workers hold the job of task id, how often it is in the queue
Holders(id) == {w \in Workers : TaskOf(w) = id}
QueuedAt(id) == {i \in 1..Len(task_queue) : task_queue[i].task_id = id}

\* C19: every submitted job is attempted at most once: it is taken off the
\* queue by at most one worker, clone_and_scan is called at most once for
\* its task id, and it is never on the queue again after it was taken.
C19_JobAttemptedAtMostOnce ==
    \A id \in 1..MaxTasks :
        /\ attempts[id].dequeued <= 1
        /\ attempts[id].scanned <= attempts[id].dequeued
        /\ Cardinality(Holders(id)) + Cardinality(QueuedAt(id)) <= 1
        /\ attempts[id].dequeued = 1 => QueuedAt(id) = {}
        /\ id > uuid_count => (attempts[id].dequeued = 0 /\ QueuedAt(id) = {})

\* a job has failed, its worker has gone on to the next job, and the failed
\* job is nowhere to be tried again
C19_Witness ==
    \E id \in 1..uuid_count :
        /\ attempts[id].scanned = 1
        /\ Has(task_statuses, id)
        /\ Get(task_statuses, id).status = "Failed: An error occurred"
        /\ Holders(id) = {}
        /\ QueuedAt(id) = {}
        /\ \E w \in Workers : TaskOf(w) > id

\* C20: eviction goes by insertion order alone: a step that finds the store
\* over capacity removes the oldest records whatever their status, a
\* removed record never comes back, and a get of its id answers not-found,
\* also while its job is still queued or being processed.
Oldest == {Keys(task_statuses)[i] : i \in 1..(Len(task_statuses) - MAX_TASK_HISTORY)}

C20_EvictionIgnoresStatus ==
    [][ /\ uuid_count' # uuid_count => \A id \in Oldest : ~Has(task_statuses', id)
        /\ \A id \in 1..uuid_count :
              ~Has(task_statuses', id) => (task_status_route(id))' = "Invalid task ID"
        /\ \A id \in 1..uuid_count : ~Has(task_statuses, id) => ~Has(task_statuses', id)
      ]_vars

\* a record was evicted while Running: its job is still being processed and
\* a get of its id answers not-found
C20_Witness ==
    \E w \in Workers :
        /\ threads[w].pc \in {"line75", "limited_sonar_scan"}
        /\ ~Stored(w)
        /\ task_status_route(TaskOf(w)) = "Invalid task ID"
        /\ Len(task_statuses) > MAX_TASK_HISTORY

\* the access token the scanner is given
Token == strip(config.SONAR_LOGIN_TOKEN)

\* the texts of an argv, of an environment
ArgvTexts(cmd) == UNION {{cmd[a][k] : k \in 1..Len(cmd[a])} : a \in 1..Len(cmd)}
EnvTexts(env, name) == {env[name][k] : k \in 1..Len(env[name])}

Scanning == {w \in DOMAIN threads : At(w, "proc_wait")}
CacheDirOf(w) == threads[w].env[1].SONAR_USER_HOME

\* C22: with per-job cache mode on, no two jobs that different workers are
\* scanning at the same time use the same scanner cache directory.
C22_NoSharedCacheDir ==
    \A w1 \in Scanning, w2 \in Scanning :
        w1 # w2 => CacheDirOf(w1) # CacheDirOf(w2)

\* C23: a failure inside the browser session of take_sonar_screenshot
\* (launch, login, navigation, settle wait, capture, close) never reaches
\* the caller: the function returns null, and the worker gives the task the
\* scan's own final status with screenshot_info null.
C23_SessionFailureReturnsNull ==
    \A w \in DOMAIN threads :
        threads[w].session.failed_in # "" =>
            /\ threads[w].shot = "null"
            /\ threads[w].screenshot_info = None
            /\ threads[w].exc = NoExc
            /\ threads[w].pc \in {"line108", "line111", "line127"}
            /\ (Finished(w) /\ Stored(w)) =>
                  /\ Record(w).status = threads[w].final_status
                  /\ Record(w).status =
                        IF threads[w].exit_code = 0 THEN "Completed" ELSE "Failed: Quality Gate"
                  /\ Record(w).screenshot_info = None

\* the capture failed after a quality-gate failure, and the task has ended
C23_Witness ==
    \E w \in DOMAIN threads :
        /\ Finished(w)
        /\ threads[w].session.failed_in = "capture"
        /\ threads[w].session.steps = <<"login", "navigate", "poll", "settle", "capture">>
        /\ Record(w).status = "Failed: Quality Gate"
        /\ Record(w).screenshot_info = None

\* the worker is inside the loop of _wait_for_quality_gate_update
Polling(w) == threads[w].pc \in {"poll108", "poll126"}

\* what _wait_for_quality_gate_update returned to take_sonar_screenshot
PollResult(w) ==
    <<threads[w].session.quality_gate_updated,
      threads[w].session.quality_gate_status,
      threads[w].session.waited_ms>>

\* the change is reported at the first re-read that differs from the initial
\* text: every earlier re-read left the initial text, and the text returned
\* is the differing one, with the time elapsed at that re-read
ChangeAtFirstDifference ==
    \A w \in DOMAIN threads :
        LET sess == threads[w].session IN
        /\ Polling(w) => sess.prev_text # None /\ sess.latest_text = sess.prev_text
        /\ sess.polled = "changed" =>
              /\ PollResult(w) = <<TRUE, sess.latest_text, sess.waited_ms>>
              /\ sess.latest_text \notin {None, sess.prev_text}
              /\ sess.reads >= 1
              /\ sess.waited_ms < max_wait_ms
              /\ sess.waited_ms <= sess.clock
        /\ sess.quality_gate_updated => sess.polled = "changed"

\* C27 (as stated): _wait_for_quality_gate_update returns (true, new text,
\* elapsed) at the first re-read whose text differs from the initial text, and
\* every other return is (false, last-seen text, elapsed) with
\* elapsed >= max_wait_ms; it never returns true with the initial text.
C27_ReturnsChangeOrTimeout ==
    /\ ChangeAtFirstDifference
    /\ \A w \in DOMAIN threads :
          LET sess == threads[w].session IN
          sess.polled \in {"timeout", "unread"} =>
              /\ PollResult(w) = <<FALSE, sess.latest_text, sess.clock>>
              /\ sess.waited_ms >= max_wait_ms

\* C27 (amended): as above, except that a failure of the initial read
\* returns (false, null, 0) at once, without any re-read.
C27_ReturnsChangeTimeoutOrUnread ==
    /\ ChangeAtFirstDifference
    /\ \A w \in DOMAIN threads :
          LET sess == threads[w].session IN
          /\ sess.polled = "timeout" =>
                /\ PollResult(w) = <<FALSE, sess.latest_text, sess.clock>>
                /\ sess.latest_text = sess.prev_text
                /\ sess.waited_ms >= max_wait_ms
          /\ sess.polled = "unread" =>
                /\ PollResult(w) = <<FALSE, None, 0>>
                /\ sess.reads = 0

\* a change seen at the second re-read, one interval after the first
C27_Witness ==
    \E w \in DOMAIN threads :
        /\ threads[w].session.polled = "changed"
        /\ threads[w].session.reads = 2
        /\ threads[w].session.waited_ms >= interval_ms
        /\ threads[w].session.prev_text = Some("Failed")
        /\ PollResult(w)[2] = Some("Passed")

\* C28: the badge polling always terminates: with every interval wait
\* advancing the clock by interval_ms, the loop makes at most
\* max_wait_ms / interval_ms + 1 re-reads, and a worker inside
\* _wait_for_quality_gate_update leaves it, also when the text never changes
\* and when every re-read fails.
C28_PollingTerminates ==
    /\ [](\A w \in DOMAIN threads :
            threads[w].session.reads <= (max_wait_ms \div interval_ms) + 1)
    /\ \A w \in Workers :
          (threads[w].pc = "poll99") ~> (threads[w].session.polled # "")

\* the loop ran to its timeout with every re-read failing
C28_Witness ==
    \E w \in DOMAIN threads :
        /\ threads[w].session.polled = "timeout"
        /\ threads[w].session.reads >= max_wait_ms \div interval_ms
        /\ threads[w].session.latest_text = threads[w].session.prev_text

\* the attempt of worker w has come to the capture
ReachedCapture(w) ==
    \/ threads[w].pc = "shot238"
    \/ \E i \in DOMAIN threads[w].session.steps : threads[w].session.steps[i] = "capture"

\* take_sonar_screenshot has returned an info record to worker w
ReturnedInfo(w) == threads[w].session.captured # <<>> /\ threads[w].screenshot_info # None

\* C29: in every screenshot attempt that reaches the capture the steps are,
\* in this order, login, dashboard navigation, badge polling (left out when
\* no selector matched), the fixed settle delay, the capture; the delay is
\* applied once whatever the polling did (change, timeout, crash, failed
\* initial read, skipped); every info record returned has
\* fixed_delay_ms = 30000.
C29_SettleBeforeEveryCapture ==
    \A w \in DOMAIN threads :
        LET sess == threads[w].session
            before == <<"login", "navigate">> \o
                      (IF sess.badge_selector = None THEN <<>> ELSE <<"poll">>) \o
                      <<"settle">>
        IN
        /\ ReachedCapture(w) =>
              /\ sess.steps \in {before, Append(before, "capture")}
              /\ sess.delayed = 30000
              /\ sess.polled \in {"changed", "timeout", "crashed", "unread", "skipped"}
              /\ sess.polled = "skipped" <=> sess.badge_selector = None
        /\ ReturnedInfo(w) =>
              /\ sess.steps = Append(before, "capture")
              /\ threads[w].screenshot_info[1].fixed_delay_ms = 30000
              /\ (Finished(w) /\ Stored(w)) =>
                    Record(w).screenshot_info = threads[w].screenshot_info

\* a capture after a polling that crashed, stored with the task
C29_Witness ==
    \E w \in DOMAIN threads :
        /\ Finished(w) /\ Stored(w)
        /\ threads[w].session.polled = "crashed"
        /\ threads[w].session.steps = <<"login", "navigate", "poll", "settle", "capture">>
        /\ Record(w).screenshot_info # None
        /\ Record(w).screenshot_info[1].fixed_delay_ms = 30000

\* C30: the capture mode follows a strict priority: a clip rectangle with
\* x, y, width and height gives a capture of that region; otherwise a
\* selector gives a capture of that element, or of the full page when the
\* element capture fails; otherwise the full page is captured.  A successful
\* attempt has written exactly one screenshot.
C30_CaptureModeByPriority ==
    \A w \in DOMAIN threads :
        LET sess == threads[w].session
            complete == \A k \in {"x", "y", "width", "height"} : k \in sess.clip_rect
        IN
        /\ Len(sess.captured) <= 1
        /\ sess.captured # <<>> =>
              /\ complete => sess.captured = <<"clip">>
              /\ (~complete /\ sess.selector # None) =>
                     sess.captured \in {<<"element">>, <<"full_page">>}
              /\ (~complete /\ sess.selector = None) => sess.captured = <<"full_page">>
        /\ threads[w].shot = "info" => Len(sess.captured) = 1

\* an incomplete rectangle and a selector whose element could not be
\* captured: the full page was, and the attempt succeeded
C30_Witness ==
    \E w \in DOMAIN threads :
        /\ threads[w].session.clip_rect = {"x", "y", "width"}
        /\ threads[w].session.selector # None
        /\ threads[w].session.captured = <<"full_page">>
        /\ threads[w].shot = "info"
        /\ threads[w].screenshot_info # None

\* the task's record shows Running after this step and did not before it
EntersRunning(id) ==
    /\ Has(task_statuses', id)
    /\ Get(task_statuses', id).status = "Running"
    /\ ~(Has(task_statuses, id) /\ Get(task_statuses, id).status = "Running")

\* C26: jobs leave the queue in the order they were put on it (a put appends
\* the newest task id, a get takes the head); a worker takes a job only
\* from the top of its loop, holding no job, and gives its job up only at
\* the end of _process_job, after the scan and the screenshot; with a single
\* worker a task that enters Running has a higher id than every task
\* dequeued before it and a lower one than every task still queued, so tasks
\* enter Running in submission order.
C26_FifoOneJobAtATime ==
    [][ /\ \A i \in DOMAIN task_queue : \A j \in DOMAIN task_queue :
              i < j => task_queue[i].task_id < task_queue[j].task_id
        /\ task_queue' # task_queue =>
              \/ /\ Len(task_queue') = Len(task_queue) + 1
                 /\ task_queue' = Append(task_queue, task_queue'[Len(task_queue')])
                 /\ task_queue'[Len(task_queue')].task_id = uuid_count'
                 /\ uuid_count' = uuid_count + 1
              \/ /\ task_queue # <<>>
                 /\ task_queue' = Tail(task_queue)
                 /\ \E w \in DOMAIN threads :
                       /\ threads[w].pc = "line123"
                       /\ threads'[w].job = Head(task_queue)
                       /\ threads'[w].pc = "line66"
        /\ \A w \in DOMAIN threads :
              threads'[w].job # threads[w].job =>
                  \/ /\ threads[w].pc = "line127"
                     /\ threads'[w].job = NoJob
                  \/ /\ threads[w].pc = "line123"
                     /\ threads[w].job = NoJob
                     /\ task_queue # <<>>
                     /\ threads'[w].job = Head(task_queue)
        /\ \A w \in DOMAIN threads :
              threads[w].pc \in {"unstarted", "line123", "dead"} => threads[w].job = NoJob
        /\ _num_workers = 1 =>
              \A id \in 1..MaxTasks :
                  EntersRunning(id) =>
                      /\ \A k \in 1..(id - 1) : attempts[k].dequeued = 1
                      /\ \A k \in (id + 1)..MaxTasks : attempts[k].dequeued = 0
                      /\ \A i \in DOMAIN task_queue : task_queue[i].task_id > id
                      /\ \A w \in DOMAIN threads : threads[w].job.task_id = id
      ]_vars

\* the second task is Running after the first was dequeued and left, and
\* the third is waiting in the queue
C26_Witness ==
    /\ \E w \in DOMAIN threads :
          /\ TaskOf(w) = 2
          /\ Stored(w)
          /\ Record(w).status = "Running"
    /\ attempts[1].dequeued = 1
    /\ Len(task_queue) = 1
    /\ task_queue[1].task_id = 3

\* the number of bytes of the UTF-8 encoding of a text
RECURSIVE ByteCount(_)
ByteCount(text) == IF text = <<>> THEN 0 ELSE utf8_width(Head(text)) + ByteCount(Tail(text))

\* C24: in the status response the log is null unless include_log=1 was
\* asked for; a log that is included is the longest prefix of the stored
\* log that has whole characters and at most max_bytes bytes of UTF-8;
\* log_size is the byte count of the whole stored log either way, and
\* has_log is true exactly when the stored log is not empty.
C24_LogOnlyOnRequestWithinBudget ==
    (response # None /\ Has(task_statuses, response[1].task_id)) =>
        LET json == response[1].json
            raw_log == Get(task_statuses, response[1].task_id).log
            full == IF raw_log = None THEN <<>> ELSE raw_log[1]
        IN
        /\ ~response[1].include_log => json.log = None
        /\ (response[1].include_log /\ full # <<>>) => json.log # None
        /\ json.log # None =>
              LET snippet == json.log[1] IN
              /\ Len(snippet) <= Len(full)
              /\ snippet = SubSeq(full, 1, Len(snippet))
              /\ ByteCount(snippet) <= max_bytes
              /\ Len(snippet) < Len(full) =>
                    ByteCount(SubSeq(full, 1, Len(snippet) + 1)) > max_bytes
        /\ json.log_size = ByteCount(full)
        /\ json.has_log <=> full # <<>>

\* a log over the budget, asked for, and cut inside a character
C24_Witness ==
    /\ response # None
    /\ response[1].include_log
    /\ Has(task_statuses, response[1].task_id)
    /\ response[1].json.log # None
    /\ response[1].json.log_size > max_bytes
    /\ response[1].json.has_log
    /\ ByteCount(response[1].json.log[1]) < max_bytes

\* C25: no worker thread exists before the first create_task call; however
\* many request threads call create_task, and however their first calls
\* overlap, _num_workers worker threads are started in all: never more,
\* and all of them before any call gets past _ensure_workers_started.
C25_WorkersStartedOnce ==
    /\ started <= _num_workers
    /\ \A w \in Workers : threads[w].pc # "unstarted" <=> w <= started
    /\ started > 0 => (_worker_started \/ _worker_lock # 0)
    /\ _worker_lock # 0 =>
          /\ requests[_worker_lock].pc = "line135"
          /\ requests[_worker_lock].i = started
          /\ ~_worker_started
    /\ _worker_started => started = _num_workers
    /\ \A c \in Callers :
          requests[c].pc \in {"line155", "line49", "line158", "line183"} =>
              _worker_started /\ started = _num_workers
    /\ uuid_count > 0 => started = _num_workers

\* two first calls at once: one thread has started every worker and still
\* holds the lock, the other waits for it with the flag not yet set
C25_Witness ==
    \E c \in Callers : \E d \in Callers :
        /\ c # d
        /\ requests[c].pc = "line135"
        /\ requests[c].i = _num_workers
        /\ requests[d].pc = "line132"
        /\ started = _num_workers
        /\ ~_worker_started

\* the arguments of a command that name a coverage report, and the one
\* that names the Java binaries
CoverageArgs(cmd) ==
    {a \in 1..Len(cmd) :
        cmd[a][1] \in {"-Dsonar.python.coverage.reportPaths=",
                       "-Dsonar.coverage.jacoco.xmlReportPaths=",
                       "-Dsonar.javascript.lcov.reportPaths=",
                       "-Dsonar.go.coverage.reportPaths="}}
BinariesArgs(cmd) == {a \in 1..Len(cmd) : cmd[a] = <<"-Dsonar.java.binaries=target/classes">>}

\* C32: whatever coverage reports the clone holds, the scanner command has at
\* most one coverage argument: that of the first of Python, Java, JavaScript,
\* Go whose report exists; the Java binaries argument is there exactly when
\* the Java report is the one chosen and target/classes exists.
C32_FirstCoverageReportOnly ==
    \A w \in Workers :
        threads[w].cmd # <<>> =>
            LET cmd == threads[w].cmd
                files == threads[w].files
                chosen ==
                    IF "coverage.xml" \in files
                    THEN <<"-Dsonar.python.coverage.reportPaths=", "coverage.xml">>
                    ELSE IF "target/site/jacoco/jacoco.xml" \in files
                    THEN <<"-Dsonar.coverage.jacoco.xmlReportPaths=", "target/site/jacoco/jacoco.xml">>
                    ELSE IF "coverage/lcov.info" \in files
                    THEN <<"-Dsonar.javascript.lcov.reportPaths=", "coverage/lcov.info">>
                    ELSE IF "coverage.out" \in files
                    THEN <<"-Dsonar.go.coverage.reportPaths=", "coverage.out">>
                    ELSE <<>>
                java == "coverage.xml" \notin files /\ "target/site/jacoco/jacoco.xml" \in files
            IN
            /\ Cardinality(CoverageArgs(cmd)) <= 1
            /\ {cmd[a] : a \in CoverageArgs(cmd)} = {chosen} \ {<<>>}
            /\ Cardinality(BinariesArgs(cmd)) = IF java /\ "target/classes" \in files THEN 1 ELSE 0

\* the Java report is chosen before the JavaScript and Go reports that are
\* there too, and the binaries go with it
C32_Witness ==
    \E w \in Workers :
        /\ threads[w].files = {"target/site/jacoco/jacoco.xml", "coverage/lcov.info",
                               "coverage.out", "target/classes"}
        /\ threads[w].cmd # <<>>
        /\ Cardinality(CoverageArgs(threads[w].cmd)) = 1
        /\ Cardinality(BinariesArgs(threads[w].cmd)) = 1

\* the lines of _process_job that assign to task_statuses[task_id]
RecordLines ==
    {"line66", "line93", "line94", "line100", "line101", "line105",
     "line108", "line111", "line117", "line118"}

\* C33: whenever a worker is about to write the record of the task it is
\* processing, that record is in the store: no job is dequeued for, or goes
\* on with, a task id that was evicted.
C33_RecordPresentWhenWritten ==
    \A w \in Workers : threads[w].pc \in RecordLines => Stored(w)

\* C36: for every stored task: with status Queued or "Failed: An error
\* occurred" both sonar_url and screenshot_info are null; with status
\* Generating Screenshot, Completed, "Failed: Quality Gate" or "Failed:
\* Screenshot Error" sonar_url is set; screenshot_info is set only with
\* status Generating Screenshot, Completed or "Failed: Quality Gate".
C36_FieldsFollowStatus ==
    \A i \in 1..Len(task_statuses) :
        LET t == task_statuses[i] IN
        /\ t.status \in {"Queued", "Failed: An error occurred"} =>
              t.sonar_url = None /\ t.screenshot_info = None
        /\ t.status \in {"Generating Screenshot", "Completed", "Failed: Quality Gate",
                         "Failed: Screenshot Error"} => t.sonar_url # None
        /\ t.screenshot_info # None =>
              t.status \in {"Generating Screenshot", "Completed", "Failed: Quality Gate"}

\* a task whose screenshot is stored while its status is still Generating
\* Screenshot
C36_Witness ==
    \E i \in 1..Len(task_statuses) :
        /\ task_statuses[i].status = "Generating Screenshot"
        /\ task_statuses[i].sonar_url # None
        /\ task_statuses[i].screenshot_info # None

\* the task is stored with a status that is not one of the four final ones
Unfinished(id) ==
    /\ Has(task_statuses, id)
    /\ Get(task_statuses, id).status \in {"Queued", "Running", "Generating Screenshot"}

\* C34: with every scan and screenshot step ending and the workers scheduled
\* fairly, every submitted task comes to one of the four final statuses or
\* is evicted: none stays Queued, Running or Generating Screenshot for ever.
C34_EveryTaskEnds ==
    \A id \in 1..MaxTasks : Unfinished(id) ~> ~Unfinished(id)

\* the time-to-live in seconds that each setting of TtlSettings stands for:
\* 24 hours for an empty text and for one that is no whole number
TtlOf(setting) ==
    CASE setting = <<"0">> -> 0
      [] setting = <<"-", "1">> -> 0 - 3600
      [] setting = <<"1">> -> 3600
      [] setting = <<" ", "2", " ">> -> 7200
      [] OTHER -> 86400

InitCalls ==
    /\ \E r \in Requests :
        /\ task_statuses = [id \in 1..(MAX_TASK_HISTORY + 1) |-> NewRecord(id, r)]
        /\ task_queue = [id \in 1..(MAX_TASK_HISTORY + 1) |-> NewJob(id, r)]
    /\ _worker_started = TRUE
    /\ threads = [w \in Workers |-> Thread("line123")]
    /\ uuid_count = MAX_TASK_HISTORY + 1
    /\ \E e \in Environments : config = e[1] /\ world = e[2]
    /\ tmp_dirs = {}
    /\ attempts = NoAttempts
    /\ started = _num_workers
    /\ _worker_lock = 0
    /\ requests \in [Callers -> {[Idle EXCEPT !.pc = "line132", !.req = Some(req)] : req \in Requests}]
    /\ response = None
    /\ screenshot_dir = {}
    /\ InitBack

SpecCalls ==
    InitCalls /\ [][\E c \in Callers : \/ with_worker_lock(c)
                                       \/ keys_to_remove(c)
                                       \/ del_task(c)
                                       \/ store_record(c)
                                       \/ queue_put(c)]_vars

\* C35: concurrent create_task calls never fail: no call of a request
\* thread ends in an exception (two cleanups never delete the same record)
C35_ConcurrentCallsNeverFail ==
    \A c \in Callers : ~requests[c].raised

(***************************************************************************)
(* SonarScanQueue (app/utils/git_sonar.py): start, stop, enqueue and the   *)
(* threads running _worker.  A job in _q is named by the number of its     *)
(* Future.                                                                 *)
(***************************************************************************)
tasks_state == <<task_statuses, task_queue, _worker_started, threads, uuid_count,
                 config, world, tmp_dirs, attempts, started, front>>
throttle == <<_failed_attempts, logins, utcnow>>

\* concurrent.futures.Future(); completions counts set_result/set_exception
Future == [state |-> "PENDING", result |-> None, exception |-> None, completions |-> 0]

\* what clone_and_scan does for a job: it returns the dashboard URL, or it
\* raises QualityGateFailed or another exception
ScanOutcomes ==
    { [returned |-> Some(<<job, "url">>), raised |-> None] : job \in 1..MaxJobs } \cup
    { [returned |-> None, raised |-> Some("QualityGateFailed")],
      [returned |-> None, raised |-> Some("CalledProcessError")] }

\* `except Exception`, with only QualityGateFailed caught
is_Exception_quality_gate_only(e) == e = "QualityGateFailed"
\* `except Exception`: both are subclasses of Exception
is_Exception(e) == e \in {"QualityGateFailed", "CalledProcessError"}

\* start(): nothing if _threads is not empty, num_workers new threads otherwise
start ==
    /\ scan_queue.caller = "idle"
    /\ IF scan_queue._threads # <<>>
       THEN UNCHANGED <<scan_queue, scan_workers>>
       ELSE /\ scan_queue.starts < MaxStarts
            /\ LET first == scan_queue.starts * scan_queue._num_workers IN
                /\ scan_workers' =
                      [t \in ScanThreads |->
                          IF t \in (first + 1)..(first + scan_queue._num_workers)
                          THEN ScanWorker("line397") ELSE scan_workers[t]]
                /\ scan_queue' = [scan_queue EXCEPT
                      !._threads = [i \in 1..scan_queue._num_workers |-> first + i],
                      !.starts = @ + 1]
    /\ UNCHANGED <<tasks_state, futures, throttle>>

\* stop(), line 445: the event is set
stop ==
    /\ scan_queue.caller = "idle"
    /\ scan_queue' = [scan_queue EXCEPT !._stopping = TRUE, !.caller = "line446"]
    /\ UNCHANGED <<tasks_state, scan_workers, futures, throttle>>

\* stop(), lines 446-449: each join returns, the thread having exited or the
\* second having passed, and the list is cleared
threads_clear ==
    /\ scan_queue.caller = "line446"
    /\ scan_queue' = [scan_queue EXCEPT !._threads = <<>>, !.caller = "idle"]
    /\ UNCHANGED <<tasks_state, scan_workers, futures, throttle>>

\* enqueue(...): a new Future, put on the queue with its job
enqueue ==
    /\ Len(futures) < MaxJobs
    /\ futures' = Append(futures, Future)
    /\ scan_queue' = [scan_queue EXCEPT !._q = Append(@, Len(futures) + 1),
                                        !.unfinished_tasks = @ + 1]
    /\ UNCHANGED <<tasks_state, scan_workers, throttle>>

\* the holder of a Future calls cancel() on it while it is pending
cancel(f) ==
    /\ f \in DOMAIN futures
    /\ futures[f].state = "PENDING"
    /\ futures' = [futures EXCEPT ![f].state = "CANCELLED"]
    /\ UNCHANGED <<tasks_state, scan_queue, scan_workers, throttle>>

\* join(): Queue.join() returns when the queue's count of unfinished tasks is 0
join_returns == scan_queue.unfinished_tasks = 0

\* _worker, lines 397-403, one round of the loop up to the job: the thread
\* ends if the event is set; queue.Empty after half a second starts the next
\* round; a cancelled Future is notified and the next round starts; a
\* pending one is running from here
q_get(t) ==
    /\ scan_workers[t].pc = "line397"
    /\ IF scan_queue._stopping
       THEN /\ scan_workers' = [scan_workers EXCEPT ![t] = ScanWorker("exited")]
            /\ UNCHANGED <<scan_queue, futures>>
       ELSE /\ scan_queue._q # <<>>
            /\ LET f == Head(scan_queue._q) IN
                /\ scan_queue' = [scan_queue EXCEPT !._q = Tail(@)]
                /\ IF futures[f].state = "CANCELLED"
                   THEN /\ futures' = [futures EXCEPT ![f].state = "CANCELLED_AND_NOTIFIED"]
                        /\ UNCHANGED scan_workers
                   ELSE /\ futures' = [futures EXCEPT ![f].state = "RUNNING"]
                        /\ scan_workers' = [scan_workers EXCEPT ![t].pc = "line405",
                                                                ![t].fut = f]
    /\ UNCHANGED <<tasks_state, throttle>>

\* lines 404-417: clone_and_scan, then set_result or set_exception, and
\* task_done() in the finally; an exception that is not caught ends the thread
run_job(t) ==
    /\ scan_workers[t].pc = "line405"
    /\ \E o \in ScanOutcomes :
        LET f == scan_workers[t].fut IN
        /\ o.returned # None => o.returned[1][1] = f
        /\ futures' =
              IF o.returned # None
              THEN [futures EXCEPT ![f].state = "FINISHED", ![f].result = o.returned,
                                   ![f].completions = @ + 1]
              ELSE IF is_Exception(o.raised[1])
              THEN [futures EXCEPT ![f].state = "FINISHED", ![f].exception = o.raised,
                                   ![f].completions = @ + 1]
              ELSE futures
        /\ scan_workers' = [scan_workers EXCEPT
              ![t] = IF o.raised # None /\ ~is_Exception(o.raised[1])
                     THEN ScanWorker("exited") ELSE ScanWorker("line397")]
    /\ scan_queue' = [scan_queue EXCEPT !.unfinished_tasks = @ - 1]
    /\ UNCHANGED <<tasks_state, throttle>>

_worker(t) ==
    \/ q_get(t)
    \/ run_job(t)

\* the process after import, configured, with a scanner that passes
InitConfigured ==
    /\ Init
    /\ config.SONAR_HOST_URL # "" /\ config.SONAR_LOGIN_TOKEN = "squ_token"
    /\ world.git = {"cloned"} /\ world.ret = {0} /\ world.shot = {"info"}

SpecScanQueue ==
    InitConfigured /\ [][ \/ start
                \/ stop
                \/ threads_clear
                \/ enqueue
                \/ \E f \in 1..MaxJobs : cancel(f)
                \/ \E t \in ScanThreads : _worker(t) ]_vars

\* the same, with every thread of the scan queue scheduled again and again
SpecScanQueueFair ==
    SpecScanQueue /\ \A t \in ScanThreads : WF_vars(_worker(t))

\* the threads of the scan queue that are alive
Alive == {t \in ScanThreads : scan_workers[t].pc \notin {"unstarted", "exited"}}
\* the threads that hold a job taken from the queue
Holding == {t \in ScanThreads : scan_workers[t].pc = "line405"}

\* C37: join() returns once every enqueued job has been taken from the
\* queue by a worker and the worker is through with it, the jobs whose
\* Future was cancelled before included
C37_JoinReturnsWhenAllTaken ==
    (scan_queue._q = <<>> /\ Holding = {}) => join_returns

\* a Future that is through: completed, or cancelled by its holder
Settled(f) ==
    f \in DOMAIN futures /\ futures[f].state \in {"FINISHED", "CANCELLED", "CANCELLED_AND_NOTIFIED"}

\* C38: while the queue is started and not stopped, every Future that is not
\* cancelled is eventually completed, exactly once and with what
\* clone_and_scan returned or raised, and no worker ends on an exception
C38_EveryFutureCompletedOnce ==
    /\ [](\A f \in DOMAIN futures :
            /\ futures[f].completions <= 1
            /\ futures[f].state = "FINISHED" <=> futures[f].completions = 1)
    /\ [](\A f \in DOMAIN futures :
            /\ futures[f].result # None => futures[f].result = Some(<<f, "url">>)
            /\ futures[f].result = None \/ futures[f].exception = None)
    /\ [](\A t \in ScanThreads : scan_workers[t].pc = "exited" => scan_queue._stopping)
    /\ \A f \in 1..MaxJobs :
          (f \in DOMAIN futures /\ scan_queue._threads # <<>> /\ ~scan_queue._stopping)
              ~> (Settled(f) \/ scan_queue._stopping)

\* a job that raised and a later job that was completed all the same
C38_Witness ==
    /\ ~scan_queue._stopping
    /\ \E f \in DOMAIN futures, g \in DOMAIN futures :
          /\ f < g
          /\ futures[f].exception # None
          /\ futures[g].state = "FINISHED" /\ futures[g].result # None

\* the jobs waiting in the queue
Waiting == {scan_queue._q[i] : i \in DOMAIN scan_queue._q}

\* never more than num_workers threads of the queue alive
AtMostNumWorkersAlive ==
    Cardinality(Alive) <= scan_queue._num_workers

\* C39: never more than num_workers threads alive, and the threads made by
\* a start() after a stop() take the jobs that wait in the queue (until
\* stop() is called again)
C39_RestartedWorkersTakeJobs ==
    /\ []AtMostNumWorkersAlive
    /\ \A f \in 1..MaxJobs :
          (scan_queue.starts >= 2 /\ scan_queue._threads # <<>> /\ f \in Waiting)
              ~> (f \notin Waiting \/ scan_queue.caller = "line446")

(***************************************************************************)
(* The login throttle (app/utils/auth.py) under the POST requests of one   *)
(* client IP to /github-access-login (github_access_login), each request   *)
(* served by its own thread.  The access password is configured and the    *)
(* session has no access yet.                                              *)
(***************************************************************************)
scan_state == <<scan_queue, scan_workers, futures>>

\* os.getenv("GITHUB_ACCESS_PASSWORD")
GITHUB_ACCESS_PASSWORD == "s3cret"
Passwords == {"s3cret", "guess", ""}

\* validate_github_access_password
validate_github_access_password(input_password) ==
    LET expected_password == strip(GITHUB_ACCESS_PASSWORD) IN
    IF expected_password = "" THEN FALSE ELSE input_password = expected_password

\* the entry a reset writes
ZeroEntry == [count |-> 0, last_failed_at |-> None, blocked_until |-> None]

\* the IP has an entry whose block has not run out
Blocked ==
    /\ _failed_attempts # None
    /\ _failed_attempts[1].blocked_until # None
    /\ utcnow < _failed_attempts[1].blocked_until[1]

\* a POST of the client arrives with a password
login_request(l) ==
    /\ logins[l].pc = "idle"
    /\ \E password \in Passwords :
          logins' = [logins EXCEPT ![l] = [NoLogin EXCEPT !.pc = "line129", !.password = password]]
    /\ UNCHANGED <<tasks_state, scan_state, _failed_attempts, utcnow>>

\* github_access_login line 129, is_ip_blocked(ip): a blocked IP gets the
\* error page; a block that has run out is reset
is_ip_blocked(l) ==
    /\ logins[l].pc = "line129"
    /\ IF Blocked
       THEN /\ logins' = [logins EXCEPT ![l] = NoLogin]
            /\ UNCHANGED _failed_attempts
       ELSE /\ logins' = [logins EXCEPT ![l].pc = "line136"]
            /\ _failed_attempts' =
                  IF _failed_attempts # None /\ _failed_attempts[1].blocked_until # None
                  THEN Some(ZeroEntry) ELSE _failed_attempts
    /\ UNCHANGED <<tasks_state, scan_state, utcnow>>

\* line 136: the password is validated
validate(l) ==
    /\ logins[l].pc = "line136"
    /\ logins' = [logins EXCEPT
          ![l].pc = IF validate_github_access_password(logins[l].password)
                    THEN "line139" ELSE "line145",
          ![l].validated_blocked = Blocked]
    /\ UNCHANGED <<tasks_state, scan_state, _failed_attempts, utcnow>>

\* line 139, reset_failed_attempts(ip), and the redirect
reset_failed_attempts(l) ==
    /\ logins[l].pc = "line139"
    /\ _failed_attempts' = IF _failed_attempts # None THEN Some(ZeroEntry) ELSE _failed_attempts
    /\ logins' = [logins EXCEPT ![l] = NoLogin]
    /\ UNCHANGED <<tasks_state, scan_state, utcnow>>

\* line 145, record_failed_attempt(ip), and the error page
record_failed_attempt(l) ==
    /\ logins[l].pc = "line145"
    /\ LET entry == IF _failed_attempts # None THEN _failed_attempts[1] ELSE ZeroEntry
           count == entry.count + 1
       IN
        _failed_attempts' =
            Some([count |-> count, last_failed_at |-> Some(utcnow),
                  blocked_until |-> IF count >= MAX_ATTEMPTS
                                    THEN Some(utcnow + BLOCK_DURATION)
                                    ELSE entry.blocked_until])
    /\ logins' = [logins EXCEPT ![l] = NoLogin]
    /\ UNCHANGED <<tasks_state, scan_state, utcnow>>

\* datetime.utcnow(): a minute passes
tick ==
    /\ utcnow < MaxClock
    /\ utcnow' = utcnow + 1
    /\ UNCHANGED <<tasks_state, scan_state, _failed_attempts, logins>>

SpecLogin ==
    InitConfigured /\ [][ \/ tick
                          \/ \E l \in Logins : \/ login_request(l)
                                               \/ is_ip_blocked(l)
                                               \/ validate(l)
                                               \/ reset_failed_attempts(l)
                                               \/ record_failed_attempt(l) ]_vars

\* C40: the failed-attempt count of the IP never exceeds MAX_ATTEMPTS and no
\* password is validated while the IP is blocked, whatever the interleaving
\* of the requests
C40_CountWithinMaxAttempts ==
    /\ _failed_attempts # None => _failed_attempts[1].count <= MAX_ATTEMPTS
    /\ \A l \in Logins : ~logins[l].validated_blocked

====
